---- MODULE Spec2Model ----
(***************************************************************************)
(* Connection lifecycle and read-only enforcement of the database MCP      *)
(* server: the write-permission verifier, the circuit breaker and the      *)
(* connection manager (pool registry).                                     *)
(***************************************************************************)
EXTENDS Integers, Sequences, FiniteSets, TLC

(***************************************************************************)
(* Text.  A string is a sequence of one-character strings, so that         *)
(* toUpperCase, join and includes are computed character by character.     *)
(***************************************************************************)
LowerLetters == <<"a","b","c","d","e","f","g","h","i","j","k","l","m","n","o","p","q","r","s","t","u","v","w","x","y","z">>

UpperLetters == <<"A","B","C","D","E","F","G","H","I","J","K","L","M","N","O","P","Q","R","S","T","U","V","W","X","Y","Z">>

\* String.prototype.toUpperCase on one character
UpperOf(c) ==
  IF \E i \in 1..Len(LowerLetters) : LowerLetters[i] = c
  THEN UpperLetters[CHOOSE i \in 1..Len(LowerLetters) : LowerLetters[i] = c]
  ELSE c

\* String.prototype.toUpperCase
ToUpperCase(str) == [i \in 1..Len(str) |-> UpperOf(str[i])]

\* String.prototype.includes: needle occurs as a contiguous substring
Includes(str, needle) ==
  \E i \in 0..(Len(str) - Len(needle)) :
    \A j \in 1..Len(needle) : str[i + j] = needle[j]

\* Array.prototype.join(' ') on the first column of the grant rows
RECURSIVE JoinRows(_)
JoinRows(rows) ==
  IF Len(rows) = 0 THEN << >>
  ELSE IF Len(rows) = 1 THEN rows[1]
  ELSE rows[1] \o <<" ">> \o JoinRows(Tail(rows))

\* The literals of the verifier
KwSuper == <<"S","U","P","E","R">>

KwAllPrivileges == <<"A","L","L"," ","P","R","I","V","I","L","E","G","E","S">>

KwInsert == <<"I","N","S","E","R","T">>

KwUpdate == <<"U","P","D","A","T","E">>

KwDelete == <<"D","E","L","E","T","E">>

KwCreate == <<"C","R","E","A","T","E">>

KwDrop == <<"D","R","O","P">>

KwAlter == <<"A","L","T","E","R">>

KwExecute == <<"E","X","E","C","U","T","E">>

\* Rows that SHOW GRANTS FOR CURRENT_USER() can return (first column)
RowUsage == <<"U","S","A","G","E">>

RowSelect == <<"S","E","L","E","C","T">>

RowInsert == <<"I","N","S","E","R","T">>

RowUpdate == <<"U","P","D","A","T","E">>

RowDelete == <<"D","E","L","E","T","E">>

RowCreate == <<"C","R","E","A","T","E">>

RowDrop == <<"D","R","O","P">>

RowAlter == <<"A","L","T","E","R">>

RowExecute == <<"E","X","E","C","U","T","E">>

RowSuper == <<"S","U","P","E","R">>

RowAll == <<"A","L","L"," ","P","R","I","V","I","L","E","G","E","S">>

RowLowerUser == <<"S","E","L","E","C","T"," ","T","O"," ","s","u","p","e","r">>

RowAllWord == <<"A","L","L">>

RowPrivilegesWord == <<"P","R","I","V","I","L","E","G","E","S">>

GrantRows == {RowUsage, RowSelect, RowInsert, RowUpdate, RowDelete, RowCreate, RowDrop, RowAlter, RowExecute, RowSuper, RowAll, RowLowerUser,
              RowAllWord, RowPrivilegesWord}


\* Values of a server variable
FlagValues == {"ON", "OFF"}

\* Largest number of rows of SHOW GRANTS that is enumerated
MaxGrantRows == 2

RECURSIVE SeqsUpTo(_, _)
SeqsUpTo(S, n) ==
  IF n = 0 THEN {<< >>}
  ELSE LET shorter == SeqsUpTo(S, n - 1)
       IN shorter \cup {Append(q, x) : q \in {r \in shorter : Len(r) = n - 1}, x \in S}

GrantLists == SeqsUpTo(GrantRows, MaxGrantRows)

(***************************************************************************)
(* Write-permission verifier (traditional RDBMS)                           *)
(***************************************************************************)
\* const hasSuper = grants.includes('SUPER') || grants.includes('ALL PRIVILEGES')
hasSuper(grants) == Includes(grants, KwSuper) \/ Includes(grants, KwAllPrivileges)

\* the regular expression without its INSERT alternative
hasWritePrivilegesNoInsert(grants) ==
  \E kw \in {KwUpdate, KwDelete, KwCreate, KwDrop, KwAlter, KwAllPrivileges} :
    Includes(grants, kw)

\* /INSERT|UPDATE|DELETE|CREATE|DROP|ALTER|ALL PRIVILEGES/.test(grants)
hasWritePrivileges(grants) ==
  \E kw \in {KwInsert, KwUpdate, KwDelete, KwCreate, KwDrop, KwAlter, KwAllPrivileges} :
    Includes(grants, kw)

\* const hasExecute = grants.includes('EXECUTE')
hasExecute(grants) == Includes(grants, KwExecute)

\* grantsRows.map(row => Object.values(row)[0]).join(' ').toUpperCase()
GrantsText(rows) == ToUpperCase(JoinRows(rows))

\* the branching without the EXECUTE test on a writable node
StrictDecisionNoExecute(innodbReadOnly, readOnly, superReadOnly, grants) ==
  LET isReadOnlyNode == readOnly = "ON" \/ superReadOnly = "ON"
  IN IF innodbReadOnly = "ON" THEN TRUE
     ELSE IF isReadOnlyNode THEN ~hasSuper(grants)
     ELSE ~hasWritePrivileges(grants)

\* the conditional branching of isStrictlyReadOnlySession on the values read
StrictDecision(innodbReadOnly, readOnly, superReadOnly, grants) ==
  LET isReadOnlyNode == readOnly = "ON" \/ superReadOnly = "ON"
  IN IF innodbReadOnly = "ON" THEN TRUE
     ELSE IF isReadOnlyNode THEN ~hasSuper(grants)
     ELSE ~(hasWritePrivileges(grants) \/ hasExecute(grants))

\* isStrictlyReadOnlySession when none of its statements fails
isStrictlyReadOnlySession(innodbReadOnly, readOnly, superReadOnly, rows) ==
  StrictDecision(innodbReadOnly, readOnly, superReadOnly, GrantsText(rows))

\* checkPermissions when none of its statements fails: read_only,
\* super_read_only and the grants are read, innodb_read_only is not
checkPermissions(readOnly, superReadOnly, rows) ==
  LET grants == GrantsText(rows)
      isReadOnlyNode == readOnly = "ON" \/ superReadOnly = "ON"
  IN [isStrictlyReadOnly |->
        IF isReadOnlyNode THEN ~hasSuper(grants)
        ELSE ~(hasWritePrivileges(grants) \/ hasExecute(grants)),
      details |-> [isReadOnlyNode |-> isReadOnlyNode,
                   hasSuper |-> hasSuper(grants),
                   hasWritePrivileges |-> hasWritePrivileges(grants),
                   hasExecute |-> hasExecute(grants),
                   grants |-> grants,
                   readOnly |-> readOnly,
                   superReadOnly |-> superReadOnly]]

VARIABLES
  srvInnodb,      \* server variable innodb_read_only
  srvReadOnly,    \* server variable read_only
  srvSuperRO,     \* server variable super_read_only
  srvGrants,      \* rows of SHOW GRANTS FOR CURRENT_USER()
  vPc,            \* position of the running isStrictlyReadOnlySession
  vLocals,        \* its local constants read so far
  vResult         \* its return value

permVars == <<srvInnodb, srvReadOnly, srvSuperRO, srvGrants, vPc, vLocals, vResult>>

VARIABLES
  dbBreakers,      \* Map dbKey -> BreakerState
  monitoringTimer, \* TRUE while the field monitoringTimer holds an interval handle
  sweepTimers,     \* number of sweep intervals set and not cleared
  now,             \* Date.now()
  cbLast,          \* the last breaker call: operation, key, returned value
  failStreak,      \* per key, while CLOSED: recordFailure calls since the last
                   \* recordSuccess or since the breaker became CLOSED
  enteredOpen,     \* per key: Date.now() when the breaker last became OPEN
  halfOpenSucc     \* per key, while HALF_OPEN: recordSuccess calls since it became so

cbVars == <<dbBreakers, monitoringTimer, sweepTimers, now, cbLast, failStreak, enteredOpen, halfOpenSucc>>

VARIABLES
  execOps          \* per invocation of executeWithCircuitBreaker: its position,
                   \* its key, what the operation produced, what the wrapper
                   \* settled with, and how often it invoked the operation,
                   \* recordSuccess and recordFailure

execVars == <<execOps>>

VARIABLES
  pools,               \* Map dbKey -> pool instance (named by its createPool call)
  poolConfigs,         \* Map dbKey -> pool configuration (named likewise)
  poolStats,           \* Map dbKey -> PoolStats
  monitoringIntervals, \* Map dbKey -> interval id (named by the call that set it)
  liveTimers,          \* interval ids set and not cleared
  destroyInvoked,      \* pool instances on which destroy() has been called
  calls,               \* per createPool call: position, key, server profile, error
  closers,             \* closePool calls waiting at await pool.destroy()
  verified,            \* instances whose permission verifier has returned true
  apiClosed            \* instances a closePool call from outside has taken

poolVars == <<pools, poolConfigs, poolStats, monitoringIntervals, liveTimers,
              destroyInvoked, calls, closers, verified, apiClosed>>

VARIABLES
  queryOps         \* per executeQuery call: position, key, how often its
                   \* statement reached the backend, the response returned

queryVars == <<queryOps>>

VARIABLES
  timeouts,        \* TimeoutManager.timeouts: Record kind -> milliseconds
  activeTimeouts,  \* TimeoutManager.activeTimeouts: Map operationId -> invocation
  tmOps            \* per withTimeout invocation: its returned promise, its
                   \* budget, its timer and the promise of its operation

tmVars == <<timeouts, activeTimeouts, tmOps>>

VARIABLES
  acquired         \* createPool calls whose probe holds a connection of the pool

createVars == <<acquired>>

VARIABLES
  poolSize,          \* DatabricksAdapter.poolSize: { min, max }
  dbsqlClient,       \* the DBSQLClient of the field client: which one, connected or not
  sessions,          \* DatabricksAdapter.sessions
  arrays,            \* the array objects availableSessions has referred to
  availableSessions, \* the array object the field availableSessions refers to
  activeSessions,    \* DatabricksAdapter.activeSessions
  pendingRequests,   \* DatabricksAdapter.pendingRequests: the queued callers
  nextSession,       \* the next session the warehouse opens
  staleCount,        \* stale-session errors the transport has raised
  faultCount,        \* other failures of the warehouse so far
  rawOps             \* per raw(sql) call: position, locals of its current
                     \* acquireSession, the session it holds, retryCount, counts

sessVars == <<poolSize, dbsqlClient, sessions, arrays, availableSessions,
              activeSessions, pendingRequests, nextSession, staleCount, faultCount, rawOps>>

VARIABLES
  isShuttingDown,  \* ConnectionManager.isShuttingDown
  closeAllOps,     \* per closeAll call: position, start, timeout, closePromises
  hung,            \* pool instances whose destroy() never settles
  destroyed        \* pool instances whose destroy() has completed

closeAllVars == <<isShuttingDown, closeAllOps, hung, destroyed>>

VARIABLES
  tasks,    \* listener invocations: shutdownHandler and gracefulShutdown calls
  exited    \* << >> while the process runs, <<code>> after process.exit(code)

procVars == <<tasks, exited>>

VARIABLES
  dbConfigs,           \* this.dbConfigs: the entries [dbKey, config] in insertion order
  listCall             \* the last getDatabaseList() call: what it read and what it returned

listVars == <<dbConfigs, listCall>>

VARIABLES
  dbxCheck,            \* one isDatabricksReadOnlySession call: position, locals, return value
  rawLog               \* the statements of that call that adapter.raw has settled, in order

dbxVars == <<dbxCheck, rawLog>>

VARIABLES
  isDestroyed,       \* DatabricksAdapter.isDestroyed
  destroyPc          \* the destroy() call: not called, closing sessions and client, done

destroyVars == <<isDestroyed, destroyPc>>

nonPermVars == <<cbVars, execVars, poolVars, queryVars, tmVars, createVars, sessVars, closeAllVars, procVars, listVars, dbxVars, destroyVars>>

nonCbVars == <<permVars, execVars, poolVars, queryVars, tmVars, createVars, sessVars, closeAllVars, procVars, listVars, dbxVars, destroyVars>>

nonExecVars == <<permVars, poolVars, queryVars, tmVars, createVars, sessVars, closeAllVars, procVars, listVars, dbxVars, destroyVars>>

nonPoolVars == <<permVars, cbVars, execVars, queryVars, tmVars, createVars, sessVars, closeAllVars, procVars, listVars, dbxVars, destroyVars>>

nonQueryVars == <<permVars, cbVars, execVars, poolVars, tmVars, createVars, sessVars, closeAllVars, procVars, listVars, dbxVars, destroyVars>>

nonTmVars == <<permVars, cbVars, execVars, poolVars, queryVars, createVars, sessVars, closeAllVars, procVars, listVars, dbxVars, destroyVars>>

nonCreateVars == <<permVars, cbVars, execVars, poolVars, queryVars, tmVars, sessVars, closeAllVars, procVars, listVars, dbxVars, destroyVars>>

nonSessVars == <<permVars, cbVars, execVars, poolVars, queryVars, tmVars, createVars, closeAllVars, procVars, listVars, dbxVars, destroyVars>>

nonCloseAllVars == <<permVars, cbVars, execVars, queryVars, tmVars, createVars, sessVars, procVars, listVars, dbxVars, destroyVars>>

nonProcVars == <<permVars, cbVars, execVars, queryVars, tmVars, createVars, sessVars, listVars, dbxVars, destroyVars>>

nonListVars == <<permVars, cbVars, execVars, poolVars, queryVars, tmVars, createVars, sessVars, closeAllVars, procVars, dbxVars, destroyVars>>

nonDbxVars == <<permVars, cbVars, execVars, poolVars, queryVars, tmVars, createVars, sessVars, closeAllVars, procVars, listVars, destroyVars>>

nonDestroyVars == <<permVars, cbVars, execVars, poolVars, queryVars, tmVars, createVars, closeAllVars, procVars, listVars, dbxVars>>

vars == <<permVars, cbVars, execVars, poolVars, queryVars, tmVars, createVars, sessVars, closeAllVars, procVars, listVars, dbxVars, destroyVars>>

NoLocals == [innodbReadOnly |-> "?", readOnly |-> "?", superReadOnly |-> "?", grants |-> << >>]

\* the three SHOW VARIABLES statements
VerifierReadFlags ==
  /\ vPc = "flags"
  /\ vLocals' = [vLocals EXCEPT !.innodbReadOnly = srvInnodb,
                                !.readOnly = srvReadOnly,
                                !.superReadOnly = srvSuperRO]
  /\ vPc' = "grants"
  /\ UNCHANGED <<srvInnodb, srvReadOnly, srvSuperRO, srvGrants, vResult>>
  /\ UNCHANGED nonPermVars

\* SHOW GRANTS FOR CURRENT_USER(), joined and uppercased
VerifierReadGrants ==
  /\ vPc = "grants"
  /\ vLocals' = [vLocals EXCEPT !.grants = GrantsText(srvGrants)]
  /\ vPc' = "decide"
  /\ UNCHANGED <<srvInnodb, srvReadOnly, srvSuperRO, srvGrants, vResult>>
  /\ UNCHANGED nonPermVars

\* the branching and the return
VerifierDecide ==
  /\ vPc = "decide"
  /\ vResult' = StrictDecision(vLocals.innodbReadOnly, vLocals.readOnly,
                               vLocals.superReadOnly, vLocals.grants)
  /\ vPc' = "returned"
  /\ UNCHANGED <<srvInnodb, srvReadOnly, srvSuperRO, srvGrants, vLocals>>
  /\ UNCHANGED nonPermVars

\* a statement of the verifier rejects: the verifier rejects with it
VerifierStatementFails ==
  /\ vPc \in {"flags", "grants"}
  /\ vPc' = "threw"
  /\ UNCHANGED <<srvInnodb, srvReadOnly, srvSuperRO, srvGrants, vLocals, vResult>>
  /\ UNCHANGED nonPermVars


(***************************************************************************)
(* Circuit breaker                                                         *)
(***************************************************************************)
\* logical database keys
Keys == {"db1", "db2"}

\* new CircuitBreaker({ failureThreshold: 5, resetTimeout: 30000,
\*                      monitorInterval: 5000, halfOpenSuccessThreshold: 2 })
failureThreshold == 5

resetTimeout == 30000

monitorInterval == 5000

halfOpenSuccessThreshold == 2

\* Date.now() advances in steps of ClockStep milliseconds, MaxTicks times
ClockStep == 15000

MaxTicks == 3

\* lastFailureTime: null
NoTime == -1

\* the entry getBreaker creates on first reference
NewBreaker(t) ==
  [state |-> "CLOSED", failureCount |-> 0, successCount |-> 0,
   lastFailureTime |-> NoTime, lastStateChange |-> t]

\* getBreaker(dbKey): the map after the lazy creation
getBreaker(bs, k, t) ==
  IF k \in DOMAIN bs THEN bs ELSE bs @@ (k :> NewBreaker(t))

\* open that leaves successCount as it was
openKeepsSuccessCount(bs, k, t) ==
  LET b == getBreaker(bs, k, t)
  IN IF b[k].state # "OPEN"
     THEN [b EXCEPT ![k].state = "OPEN", ![k].lastStateChange = t]
     ELSE b

\* open(dbKey)
open(bs, k, t) ==
  LET b == getBreaker(bs, k, t)
  IN IF b[k].state # "OPEN"
     THEN [b EXCEPT ![k].state = "OPEN", ![k].lastStateChange = t,
                    ![k].successCount = 0]
     ELSE b

\* halfOpen(dbKey)
halfOpen(bs, k, t) ==
  LET b == getBreaker(bs, k, t)
  IN IF b[k].state # "HALF_OPEN"
     THEN [b EXCEPT ![k].state = "HALF_OPEN", ![k].lastStateChange = t,
                    ![k].successCount = 0]
     ELSE b

\* close(dbKey)
close(bs, k, t) ==
  LET b == getBreaker(bs, k, t)
  IN IF b[k].state # "CLOSED"
     THEN [b EXCEPT ![k].state = "CLOSED", ![k].lastStateChange = t,
                    ![k].failureCount = 0, ![k].successCount = 0]
     ELSE b

\* isAllowed with the comparison of the block time turned around
isAllowedEarly(bs, k, t) ==
  LET b == getBreaker(bs, k, t)
  IN IF b[k].state = "OPEN"
     THEN IF t - b[k].lastStateChange <= resetTimeout
          THEN [result |-> TRUE, breakers |-> halfOpen(b, k, t)]
          ELSE [result |-> FALSE, breakers |-> b]
     ELSE [result |-> TRUE, breakers |-> b]

\* isAllowed(dbKey): the value returned and the map it leaves
isAllowed(bs, k, t) ==
  LET b == getBreaker(bs, k, t)
  IN IF b[k].state = "OPEN"
     THEN IF t - b[k].lastStateChange >= resetTimeout
          THEN [result |-> TRUE, breakers |-> halfOpen(b, k, t)]
          ELSE [result |-> FALSE, breakers |-> b]
     ELSE [result |-> TRUE, breakers |-> b]

\* recordSuccess closing one success too late
recordSuccessLate(bs, k, t) ==
  LET b == getBreaker(bs, k, t)
  IN IF b[k].state = "HALF_OPEN"
     THEN LET b1 == [b EXCEPT ![k].successCount = @ + 1]
          IN IF b1[k].successCount > halfOpenSuccessThreshold
             THEN close(b1, k, t)
             ELSE b1
     ELSE IF b[k].state = "CLOSED"
     THEN [b EXCEPT ![k].failureCount = 0]
     ELSE b

\* recordSuccess(dbKey)
recordSuccess(bs, k, t) ==
  LET b == getBreaker(bs, k, t)
  IN IF b[k].state = "HALF_OPEN"
     THEN LET b1 == [b EXCEPT ![k].successCount = @ + 1]
          IN IF b1[k].successCount >= halfOpenSuccessThreshold
             THEN close(b1, k, t)
             ELSE b1
     ELSE IF b[k].state = "CLOSED"
     THEN [b EXCEPT ![k].failureCount = 0]
     ELSE b

\* recordFailure opening one failure too late
recordFailureLate(bs, k, t) ==
  LET b  == getBreaker(bs, k, t)
      b0 == [b EXCEPT ![k].lastFailureTime = t]
  IN IF b0[k].state = "HALF_OPEN"
     THEN open(b0, k, t)
     ELSE IF b0[k].state = "CLOSED"
     THEN LET b1 == [b0 EXCEPT ![k].failureCount = @ + 1]
          IN IF b1[k].failureCount > failureThreshold
             THEN open(b1, k, t)
             ELSE b1
     ELSE b0

\* recordFailure(dbKey)
recordFailure(bs, k, t) ==
  LET b  == getBreaker(bs, k, t)
      b0 == [b EXCEPT ![k].lastFailureTime = t]
  IN IF b0[k].state = "HALF_OPEN"
     THEN open(b0, k, t)
     ELSE IF b0[k].state = "CLOSED"
     THEN LET b1 == [b0 EXCEPT ![k].failureCount = @ + 1]
          IN IF b1[k].failureCount >= failureThreshold
             THEN open(b1, k, t)
             ELSE b1
     ELSE b0

\* reset that clears the whole map although a key is given
resetEverything(bs, k, t) == [x \in {} |-> 0]

\* reset(dbKey) with a key
reset(bs, k, t) == close(bs, k, t)

\* one entry of the sweep of startMonitoring's interval callback
SweepEntry(bs, k, t) ==
  IF bs[k].state = "OPEN" /\ t - bs[k].lastStateChange >= resetTimeout
  THEN halfOpen(bs, k, t)
  ELSE bs

\* the loop over dbBreakers.entries() (entries are independent of the order)
RECURSIVE SweepAll(_, _, _)
SweepAll(bs, ks, t) ==
  IF ks = {} THEN bs
  ELSE LET k == CHOOSE x \in ks : TRUE
       IN SweepAll(SweepEntry(bs, k, t), ks \ {k}, t)

EmptyMap == [k \in {} |-> 0]

StateOf(bs, k) == IF k \in DOMAIN bs THEN bs[k].state ELSE "NONE"

\* bookkeeping of the observers after a call has turned bs into bs2
Observe(bs2, k, call) ==
  LET before == StateOf(dbBreakers, k)
      after  == StateOf(bs2, k)
  IN /\ failStreak' =
          [failStreak EXCEPT ![k] =
             IF after # "CLOSED" \/ call = "recordSuccess" THEN 0
             ELSE IF before # "CLOSED" THEN (IF call = "recordFailure" THEN 1 ELSE 0)
             ELSE IF call = "recordFailure" THEN @ + 1
             ELSE @]
     /\ enteredOpen' =
          [enteredOpen EXCEPT ![k] =
             IF after = "OPEN" /\ before # "OPEN" THEN now ELSE @]
     /\ halfOpenSucc' =
          [halfOpenSucc EXCEPT ![k] =
             IF after # "HALF_OPEN" \/ before # "HALF_OPEN" THEN 0
             ELSE IF call = "recordSuccess" THEN @ + 1
             ELSE @]

CallIsAllowed(k) ==
  LET r == isAllowed(dbBreakers, k, now)
  IN /\ dbBreakers' = r.breakers
     /\ cbLast' = [op |-> "isAllowed", key |-> k, result |-> r.result]
     /\ Observe(r.breakers, k, "isAllowed")
     /\ UNCHANGED <<monitoringTimer, sweepTimers, now>>
     /\ UNCHANGED nonCbVars

CallRecordSuccess(k) ==
  /\ dbBreakers' = recordSuccess(dbBreakers, k, now)
  /\ cbLast' = [op |-> "recordSuccess", key |-> k, result |-> TRUE]
  /\ Observe(recordSuccess(dbBreakers, k, now), k, "recordSuccess")
  /\ UNCHANGED <<monitoringTimer, sweepTimers, now>>
  /\ UNCHANGED nonCbVars

CallRecordFailure(k) ==
  /\ dbBreakers' = recordFailure(dbBreakers, k, now)
  /\ cbLast' = [op |-> "recordFailure", key |-> k, result |-> TRUE]
  /\ Observe(recordFailure(dbBreakers, k, now), k, "recordFailure")
  /\ UNCHANGED <<monitoringTimer, sweepTimers, now>>
  /\ UNCHANGED nonCbVars

CallReset(k) ==
  /\ dbBreakers' = reset(dbBreakers, k, now)
  /\ cbLast' = [op |-> "reset", key |-> k, result |-> TRUE]
  /\ Observe(reset(dbBreakers, k, now), k, "reset")
  /\ UNCHANGED <<monitoringTimer, sweepTimers, now>>
  /\ UNCHANGED nonCbVars

\* the interval callback of startMonitoring
MonitorSweep ==
  /\ sweepTimers > 0
  /\ dbBreakers' = SweepAll(dbBreakers, DOMAIN dbBreakers, now)
  /\ cbLast' = [op |-> "sweep", key |-> "-", result |-> TRUE]
  /\ enteredOpen' = enteredOpen
  /\ failStreak' = failStreak
  /\ halfOpenSucc' =
       [k \in Keys |->
          IF StateOf(dbBreakers, k) # "HALF_OPEN" THEN 0 ELSE halfOpenSucc[k]]
  /\ UNCHANGED <<monitoringTimer, sweepTimers, now>>
  /\ UNCHANGED nonCbVars

\* time passes
ClockTick ==
  /\ now < MaxTicks * ClockStep
  /\ now' = now + ClockStep
  /\ cbLast' = [op |-> "tick", key |-> "-", result |-> TRUE]
  /\ UNCHANGED <<dbBreakers, monitoringTimer, sweepTimers, failStreak, enteredOpen, halfOpenSucc>>
  /\ UNCHANGED nonCbVars


(***************************************************************************)
(* Circuit breaker: startMonitoring, stopMonitoring, destroy               *)
(***************************************************************************)
\* startMonitoring(): the field and the number of live intervals it leaves
startMonitoring(mt, st) ==
  IF mt THEN [monitoringTimer |-> mt, sweepTimers |-> st]
  ELSE [monitoringTimer |-> TRUE, sweepTimers |-> st + 1]

\* stopMonitoring that drops the handle without clearInterval
stopMonitoringKeepsInterval(mt, st) ==
  [monitoringTimer |-> FALSE, sweepTimers |-> st]

\* stopMonitoring(): the field and the number of live intervals it leaves
stopMonitoring(mt, st) ==
  IF mt THEN [monitoringTimer |-> FALSE, sweepTimers |-> st - 1]
  ELSE [monitoringTimer |-> mt, sweepTimers |-> st]

CallStartMonitoring ==
  LET r == startMonitoring(monitoringTimer, sweepTimers)
  IN /\ monitoringTimer' = r.monitoringTimer
     /\ sweepTimers' = r.sweepTimers
     /\ cbLast' = [op |-> "startMonitoring", key |-> "-", result |-> TRUE]
     /\ UNCHANGED <<dbBreakers, now, failStreak, enteredOpen, halfOpenSucc>>
     /\ UNCHANGED nonCbVars

CallStopMonitoring ==
  LET r == stopMonitoring(monitoringTimer, sweepTimers)
  IN /\ monitoringTimer' = r.monitoringTimer
     /\ sweepTimers' = r.sweepTimers
     /\ cbLast' = [op |-> "stopMonitoring", key |-> "-", result |-> TRUE]
     /\ UNCHANGED <<dbBreakers, now, failStreak, enteredOpen, halfOpenSucc>>
     /\ UNCHANGED nonCbVars

\* destroy(): stopMonitoring, then dbBreakers.clear() (resetTimer is never set)
CallDestroy ==
  LET r == stopMonitoring(monitoringTimer, sweepTimers)
  IN /\ monitoringTimer' = r.monitoringTimer
     /\ sweepTimers' = r.sweepTimers
     /\ dbBreakers' = EmptyMap
     /\ cbLast' = [op |-> "destroy", key |-> "-", result |-> TRUE]
     /\ failStreak' = [k \in Keys |-> 0]
     /\ enteredOpen' = [k \in Keys |-> NoTime]
     /\ halfOpenSucc' = [k \in Keys |-> 0]
     /\ UNCHANGED now
     /\ UNCHANGED nonCbVars

(***************************************************************************)
(* executeWithCircuitBreaker / withCircuitBreaker                          *)
(***************************************************************************)
\* invocations of executeWithCircuitBreaker that can be in flight together
MaxOps == 2

OpIds == 1..MaxOps

\* keys that executeWithCircuitBreaker is called with
ExecKeys == {"db1"}

\* what an operation can resolve with, and what it can reject with
OpValues == {"rows-a", "rows-b"}

OpErrors == {"timeout", "syntax-error"}

\* new Error(`Circuit breaker is in open state (blocked): ${dbKey}`)
BreakerOpenError == "circuit-breaker-open"

IdleOp ==
  [pc |-> "idle", key |-> "-", outcome |-> "-", settled |-> "-",
   invoked |-> 0, successes |-> 0, failures |-> 0]

\* the call invoking the operation whatever isAllowed returned
ExecCallUnchecked(o, k) ==
  LET r == isAllowed(dbBreakers, k, now)
  IN /\ execOps[o].pc = "idle"
     /\ dbBreakers' = r.breakers
     /\ cbLast' = [op |-> "isAllowed", key |-> k, result |-> r.result]
     /\ Observe(r.breakers, k, "isAllowed")
     /\ execOps' = [execOps EXCEPT ![o] =
                      [IdleOp EXCEPT !.pc = "running", !.key = k, !.invoked = 1]]
     /\ UNCHANGED <<monitoringTimer, sweepTimers, now>>
     /\ UNCHANGED nonExecVars

\* the call up to `await operation()`: isAllowed, then reject or invoke
ExecCall(o, k) ==
  LET r == isAllowed(dbBreakers, k, now)
  IN /\ execOps[o].pc = "idle"
     /\ dbBreakers' = r.breakers
     /\ cbLast' = [op |-> "isAllowed", key |-> k, result |-> r.result]
     /\ Observe(r.breakers, k, "isAllowed")
     /\ execOps' =
          [execOps EXCEPT ![o] =
             IF r.result
             THEN [IdleOp EXCEPT !.pc = "running", !.key = k, !.invoked = 1]
             ELSE [IdleOp EXCEPT !.pc = "rejected", !.key = k,
                                 !.settled = BreakerOpenError]]
     /\ UNCHANGED <<monitoringTimer, sweepTimers, now>>
     /\ UNCHANGED nonExecVars

\* the operation resolves: recordSuccess, return result
ExecOperationResolves(o, v) ==
  /\ execOps[o].pc = "running"
  /\ dbBreakers' = recordSuccess(dbBreakers, execOps[o].key, now)
  /\ cbLast' = [op |-> "recordSuccess", key |-> execOps[o].key, result |-> TRUE]
  /\ Observe(recordSuccess(dbBreakers, execOps[o].key, now), execOps[o].key, "recordSuccess")
  /\ execOps' = [execOps EXCEPT ![o].pc = "resolved", ![o].outcome = v,
                                ![o].settled = v, ![o].successes = @ + 1]
  /\ UNCHANGED <<monitoringTimer, sweepTimers, now>>
  /\ UNCHANGED nonExecVars

\* the operation rejects: recordFailure, rethrow
ExecOperationRejects(o, e) ==
  /\ execOps[o].pc = "running"
  /\ dbBreakers' = recordFailure(dbBreakers, execOps[o].key, now)
  /\ cbLast' = [op |-> "recordFailure", key |-> execOps[o].key, result |-> TRUE]
  /\ Observe(recordFailure(dbBreakers, execOps[o].key, now), execOps[o].key, "recordFailure")
  /\ execOps' = [execOps EXCEPT ![o].pc = "rejected", ![o].outcome = e,
                                ![o].settled = e, ![o].failures = @ + 1]
  /\ UNCHANGED <<monitoringTimer, sweepTimers, now>>
  /\ UNCHANGED nonExecVars

\* the caller has consumed the settlement; the slot serves the next invocation
ExecReturn(o) ==
  /\ execOps[o].pc \in {"resolved", "rejected"}
  /\ execOps' = [execOps EXCEPT ![o] = IdleOp]
  /\ cbLast' = [op |-> "return", key |-> "-", result |-> TRUE]
  /\ UNCHANGED <<dbBreakers, monitoringTimer, sweepTimers, now, failStreak, enteredOpen, halfOpenSucc>>
  /\ UNCHANGED nonExecVars

(***************************************************************************)
(* Connection manager: createPool, closePool, getConnection                *)
(***************************************************************************)
\* createPool calls made during one run; a pool instance, its pool
\* configuration and its monitor interval are named by the call that made them
MaxCalls == 2

\* logical database keys with a configuration
PoolKeys == {"db1"}

CallIds == 1..MaxCalls

\* What the backend of a configuration answers: config.client, the three
\* server variables, the grants of the configured user and, for Databricks,
\* the verdict of isDatabricksReadOnlySession.
Profile(client, innodb, ro, sro, rows, dbxRO) ==
  [client |-> client, innodbReadOnly |-> innodb, readOnly |-> ro,
   superReadOnly |-> sro, grants |-> rows, databricksReadOnly |-> dbxRO]

Profiles ==
  [writableInsert  |-> Profile("mysql2", "OFF", "OFF", "OFF", <<RowSelect, RowInsert>>, FALSE),
   writableExecute |-> Profile("mysql2", "OFF", "OFF", "OFF", <<RowSelect, RowExecute>>, FALSE),
   readOnlySelect  |-> Profile("mysql2", "OFF", "ON", "OFF", <<RowSelect>>, FALSE),
   readOnlySuper   |-> Profile("mysql2", "OFF", "ON", "ON", <<RowSelect, RowSuper>>, FALSE),
   innodbInsert    |-> Profile("mysql2", "ON", "OFF", "OFF", <<RowInsert>>, FALSE),
   warehouseRW     |-> Profile("databricks", "OFF", "OFF", "OFF", << >>, FALSE)]

ProfileNames == DOMAIN Profiles

\* error.code / error.message of a failing probe or verifier statement
ProbeErrors == {"ECONNREFUSED", "OTHER"}

VerifierError == "ER_PARSE_ERROR"

InitializeError == "DATABRICKS_CONNECT_ERROR"

WritePermissionError == "Write permission detected, connection rejected"

DatabricksWritePermissionError == "Write permission detected on Databricks connection"

\* the if/else chain of the catch block: the Error that createPool throws
ClassifyError(e) ==
  CASE e = "ECONNREFUSED" -> "Cannot connect - Connection refused"
    [] e = "ETIMEDOUT" -> "Cannot connect - Connection timeout"
    [] e = "ENOTFOUND" -> "Cannot connect - Host not found"
    [] e = "ER_ACCESS_DENIED_ERROR" -> "Access denied for user"
    [] e = "ER_BAD_DB_ERROR" -> "Database does not exist"
    [] e = "Timeout acquiring a connection" -> "Failed to acquire database connection"
    [] OTHER -> e

\* Map.delete
MapDelete(m, k) == [x \in (DOMAIN m) \ {k} |-> m[x]]

\* Map.set
MapSet(m, k, v) == [x \in (DOMAIN m) \cup {k} |-> IF x = k THEN v ELSE m[x]]

\* the initial PoolStats of createPool
NewPoolStats ==
  [totalConnections |-> 0, activeConnections |-> 0, idleConnections |-> 0,
   pendingAcquisitions |-> 0, queryCount |-> 0, errors |-> 0]

\* getPool(dbKey): the registered pool or null (0)
getPool(k) == IF k \in DOMAIN pools THEN pools[k] ELSE 0

\* getConnection(dbKey) returns getDatabasePool(dbKey) unless that is null
getConnectionReturns(k) == getPool(k) # 0

IdleCall == [pc |-> "idle", key |-> "-", profile |-> "-", error |-> "-"]

\* a createPool call for key k has started and not settled
InFlight(k) ==
  \E c \in CallIds : calls[c].key = k /\ calls[c].pc \notin {"idle", "resolved", "rejected"}

\* the verdict of the permission verifier of createPool for a profile
VerifierVerdict(p) ==
  IF p.client # "databricks"
  THEN isStrictlyReadOnlySession(p.innodbReadOnly, p.readOnly, p.superReadOnly, p.grants)
  ELSE p.databricksReadOnly

\* closePool(dbKey) up to `await pool.destroy()`: the maps and sets it leaves,
\* as a record; `api` tells a call from outside from createPool's own call
ClosePoolBegin(k, api) ==
  IF k \notin DOMAIN pools
  THEN [intervals |-> monitoringIntervals, timers |-> liveTimers,
        destroys |-> destroyInvoked, closing |-> closers, taken |-> apiClosed]
  ELSE [intervals |-> MapDelete(monitoringIntervals, k),
        timers |-> IF k \in DOMAIN monitoringIntervals
                   THEN liveTimers \ {monitoringIntervals[k]} ELSE liveTimers,
        destroys |-> destroyInvoked \cup {pools[k]},
        closing |-> closers \cup {[key |-> k, inst |-> pools[k]]},
        taken |-> IF api THEN apiClosed \cup {pools[k]} ELSE apiClosed]

\* createPool up to its first await.  Callers await createPool, so that no two
\* calls for one key overlap (initConnections).
CreatePoolStart(c, k, pn) ==
  LET cl == ClosePoolBegin(k, FALSE)
      traditional == Profiles[pn].client # "databricks"
  IN /\ calls[c].pc = "idle"
     /\ \A d \in CallIds : d < c => calls[d].pc # "idle"
     /\ ~InFlight(k)
     /\ monitoringIntervals' = cl.intervals
     /\ liveTimers' = cl.timers
     /\ destroyInvoked' = cl.destroys
     /\ closers' = cl.closing
     /\ poolConfigs' = MapSet(poolConfigs, k, c)
     /\ pools' = IF traditional THEN MapSet(pools, k, c) ELSE pools
     /\ poolStats' = IF traditional THEN MapSet(poolStats, k, NewPoolStats) ELSE poolStats
     /\ calls' = [calls EXCEPT ![c] =
                    [pc |-> IF traditional THEN "probe" ELSE "initialize",
                     key |-> k, profile |-> pn, error |-> "-"]]
     /\ UNCHANGED <<verified, apiClosed>>
     /\ UNCHANGED nonPoolVars

\* await databricksAdapter.initialize() resolves: register pool and statistics
CreatePoolInitialized(c) ==
  /\ calls[c].pc = "initialize"
  /\ pools' = MapSet(pools, calls[c].key, c)
  /\ poolStats' = MapSet(poolStats, calls[c].key, NewPoolStats)
  /\ calls' = [calls EXCEPT ![c].pc = "probe"]
  /\ UNCHANGED <<poolConfigs, monitoringIntervals, liveTimers, destroyInvoked,
                 closers, verified, apiClosed>>
  /\ UNCHANGED nonPoolVars

\* await databricksAdapter.initialize() rejects: the outer catch rethrows
CreatePoolInitializeFails(c) ==
  /\ calls[c].pc = "initialize"
  /\ calls' = [calls EXCEPT ![c].pc = "rejected", ![c].error = InitializeError]
  /\ UNCHANGED <<pools, poolConfigs, poolStats, monitoringIntervals, liveTimers,
                 destroyInvoked, closers, verified, apiClosed>>
  /\ UNCHANGED nonPoolVars

\* await dbInstance.raw('SELECT 1') resolves: the verifier is called
ProbeSucceeds(c) ==
  /\ calls[c].pc = "probe"
  /\ calls' = [calls EXCEPT ![c].pc = "verify"]
  /\ UNCHANGED <<pools, poolConfigs, poolStats, monitoringIntervals, liveTimers,
                 destroyInvoked, closers, verified, apiClosed>>
  /\ UNCHANGED nonPoolVars

\* await dbInstance.raw('SELECT 1') rejects: catch, await dbInstance.destroy()
ProbeFails(c, e) ==
  /\ calls[c].pc = "probe"
  /\ destroyInvoked' = destroyInvoked \cup {c}
  /\ calls' = [calls EXCEPT ![c].pc = "cleanup", ![c].error = e]
  /\ UNCHANGED <<pools, poolConfigs, poolStats, monitoringIntervals, liveTimers,
                 closers, verified, apiClosed>>
  /\ UNCHANGED nonPoolVars

\* _startPoolMonitoring(dbKey), called by call c: the intervals map it leaves
StartMonitoringIntervals(c, k) ==
  IF k \in DOMAIN poolConfigs THEN MapSet(monitoringIntervals, k, c)
  ELSE monitoringIntervals

\* _startPoolMonitoring(dbKey), called by call c: the live intervals it leaves
StartMonitoringTimers(c, k) ==
  LET cleared == IF k \in DOMAIN monitoringIntervals
                 THEN liveTimers \ {monitoringIntervals[k]} ELSE liveTimers
  IN IF k \in DOMAIN poolConfigs THEN cleared \cup {c} ELSE cleared

\* the verifier returns true: start monitoring, emit, return dbInstance
VerifierAccepts(c) ==
  /\ calls[c].pc = "verify"
  /\ VerifierVerdict(Profiles[calls[c].profile])
  /\ verified' = verified \cup {c}
  /\ monitoringIntervals' = StartMonitoringIntervals(c, calls[c].key)
  /\ liveTimers' = StartMonitoringTimers(c, calls[c].key)
  /\ calls' = [calls EXCEPT ![c].pc = "resolved"]
  /\ UNCHANGED <<pools, poolConfigs, poolStats, destroyInvoked, closers, apiClosed>>
  /\ UNCHANGED nonPoolVars

\* the verifier returns false: await dbInstance.destroy() of the if branch
VerifierRefuses(c) ==
  /\ calls[c].pc = "verify"
  /\ ~VerifierVerdict(Profiles[calls[c].profile])
  /\ destroyInvoked' = destroyInvoked \cup {c}
  /\ calls' = [calls EXCEPT ![c].pc = "refuse"]
  /\ UNCHANGED <<pools, poolConfigs, poolStats, monitoringIntervals, liveTimers,
                 closers, verified, apiClosed>>
  /\ UNCHANGED nonPoolVars

\* a statement of the verifier rejects: catch, await dbInstance.destroy()
VerifierThrows(c) ==
  /\ calls[c].pc = "verify"
  /\ destroyInvoked' = destroyInvoked \cup {c}
  /\ calls' = [calls EXCEPT ![c].pc = "cleanup", ![c].error = VerifierError]
  /\ UNCHANGED <<pools, poolConfigs, poolStats, monitoringIntervals, liveTimers,
                 closers, verified, apiClosed>>
  /\ UNCHANGED nonPoolVars

\* after the destroy of the if branch: delete the entries, throw the
\* write-permission error, which the catch block receives: destroy again
RefuseCleans(c) ==
  /\ calls[c].pc = "refuse"
  /\ pools' = MapDelete(pools, calls[c].key)
  /\ poolStats' = MapDelete(poolStats, calls[c].key)
  /\ poolConfigs' = MapDelete(poolConfigs, calls[c].key)
  /\ calls' = [calls EXCEPT ![c].pc = "cleanup",
                            ![c].error = IF Profiles[calls[c].profile].client # "databricks"
                                         THEN WritePermissionError
                                         ELSE DatabricksWritePermissionError]
  /\ UNCHANGED <<monitoringIntervals, liveTimers, destroyInvoked, closers,
                 verified, apiClosed>>
  /\ UNCHANGED nonPoolVars

\* after the destroy of the catch block: delete the entries, classify, throw
CatchCleans(c) ==
  /\ calls[c].pc = "cleanup"
  /\ pools' = MapDelete(pools, calls[c].key)
  /\ poolStats' = MapDelete(poolStats, calls[c].key)
  /\ poolConfigs' = MapDelete(poolConfigs, calls[c].key)
  /\ calls' = [calls EXCEPT ![c].pc = "rejected", ![c].error = ClassifyError(@)]
  /\ UNCHANGED <<monitoringIntervals, liveTimers, destroyInvoked, closers,
                 verified, apiClosed>>
  /\ UNCHANGED nonPoolVars

\* closePool(dbKey) called from outside (closeAll, shutdown), up to its await
ClosePoolStart(k) ==
  LET cl == ClosePoolBegin(k, TRUE)
  IN /\ k \in DOMAIN pools
     /\ monitoringIntervals' = cl.intervals
     /\ liveTimers' = cl.timers
     /\ destroyInvoked' = cl.destroys
     /\ closers' = cl.closing
     /\ apiClosed' = cl.taken
     /\ UNCHANGED <<pools, poolConfigs, poolStats, calls, verified>>
     /\ UNCHANGED nonPoolVars

\* closePool after `await pool.destroy()`: evict the entries of the key
ClosePoolFinish(cl) ==
  /\ cl \in closers
  /\ closers' = closers \ {cl}
  /\ pools' = MapDelete(pools, cl.key)
  /\ poolConfigs' = MapDelete(poolConfigs, cl.key)
  /\ poolStats' = MapDelete(poolStats, cl.key)
  /\ UNCHANGED <<monitoringIntervals, liveTimers, destroyInvoked, calls,
                 verified, apiClosed>>
  /\ UNCHANGED nonPoolVars


(***************************************************************************)
(* createPool: what bounds its round-trips to the backend                  *)
(***************************************************************************)
\* knex rejects an acquisition that takes longer than acquireConnectionTimeout
AcquireTimeoutError == "Timeout acquiring a connection"

IsTraditional(c) ==
  /\ calls[c].profile \in ProfileNames
  /\ Profiles[calls[c].profile].client # "databricks"

\* the knex pool hands the probe a connection: 'SELECT 1' is sent on it
ProbeAcquired(c) ==
  /\ calls[c].pc = "probe"
  /\ IsTraditional(c)
  /\ c \notin acquired
  /\ acquired' = acquired \cup {c}
  /\ UNCHANGED nonCreateVars

\* acquireConnectionTimeout (getTimeout('connectionAcquisition')) expires
\* before the pool has a connection for the probe
AcquireTimesOut(c) ==
  /\ IsTraditional(c)
  /\ c \notin acquired
  /\ ProbeFails(c, AcquireTimeoutError)

(***************************************************************************)
(* Query surface: executeQuery(dbKey, params)                              *)
(***************************************************************************)
MaxQueries == 2

QueryIds == 1..MaxQueries

\* what connection.raw(query) can reject with
QueryErrors == {"ER_PARSE_ERROR"}

PoolNotFoundError == "Database pool not found for key"

QueryTimeoutError == "Query timeout"

IdleQuery == [pc |-> "idle", key |-> "-", reached |-> 0, success |-> FALSE,
              error |-> "-"]

\* executeQuery up to `await Promise.race([queryPromise, timeoutPromise])`:
\* getConnection throws without a pool, otherwise connection.raw(query) is issued
ExecuteQueryStart(q, k) ==
  /\ queryOps[q].pc = "idle"
  /\ \A p \in QueryIds : p < q => queryOps[p].pc # "idle"
  /\ queryOps' =
       [queryOps EXCEPT ![q] =
          IF ~getConnectionReturns(k)
          THEN [IdleQuery EXCEPT !.pc = "returned", !.key = k,
                                 !.error = PoolNotFoundError]
          ELSE [IdleQuery EXCEPT !.pc = "race", !.key = k, !.reached = 1]]
  /\ UNCHANGED nonQueryVars

\* queryPromise resolves first: { success: true }
QueryResolves(q) ==
  /\ queryOps[q].pc = "race"
  /\ queryOps' = [queryOps EXCEPT ![q].pc = "returned", ![q].success = TRUE]
  /\ UNCHANGED nonQueryVars

QueryRejectsUncaught(q, e) ==
  /\ queryOps[q].pc = "race"
  /\ queryOps' = [queryOps EXCEPT ![q].pc = "rejected", ![q].error = e]
  /\ UNCHANGED nonQueryVars

\* queryPromise rejects first: the catch block returns { success: false }
QueryRejects(q, e) ==
  /\ queryOps[q].pc = "race"
  /\ queryOps' = [queryOps EXCEPT ![q].pc = "returned", ![q].error = e]
  /\ UNCHANGED nonQueryVars

\* timeoutPromise rejects first
QueryTimesOut(q) ==
  /\ queryOps[q].pc = "race"
  /\ queryOps' = [queryOps EXCEPT ![q].pc = "returned", ![q].error = QueryTimeoutError]
  /\ UNCHANGED nonQueryVars

(***************************************************************************)
(* Timeout Governor: TimeoutManager                                        *)
(***************************************************************************)
MaxTm == 2

TmIds == 1..MaxTm

TimeoutTypes == {"queryExecution", "connectionAcquisition"}

DEFAULT_TIMEOUTS == [queryExecution |-> 30000, connectionAcquisition |-> 5000]

\* the durations setTimeout is called with
Durations == {0, 15000}

\* options.customTimeout: << >> for null, otherwise the number
CustomTimeouts == {<< >>, <<0>>, <<15000>>}

ConnectionTimeoutError == "ConnectionTimeoutError"

DatabaseTimeoutError == "DatabaseTimeoutError"

\* JavaScript's a || b on numbers
OrElse(a, b) == IF a = 0 THEN b ELSE a

\* getTimeout(timeoutType)
getTimeout(ts, kind) == OrElse(ts[kind], OrElse(DEFAULT_TIMEOUTS[kind], 30000))

IdleTm == [pc |-> "idle", kind |-> "-", budget |-> 0, started |-> 0,
           operationId |-> 0, timer |-> "none", operation |-> "none", outcome |-> "-",
           value |-> "-", error |-> "-", errorTimeout |-> 0]

\* resolve(result) / reject(error) of the returned promise deciding it again
SettleAgain(op, pc2, v, e, ms) ==
  [op EXCEPT !.pc = pc2, !.value = v, !.error = e, !.errorTimeout = ms]

\* resolve(result) / reject(error) of the returned promise: only the first
\* call decides it
Settle(op, pc2, v, e, ms) ==
  IF op.pc = "pending"
  THEN [op EXCEPT !.pc = pc2, !.value = v, !.error = e, !.errorTimeout = ms]
  ELSE op

\* clearTimeout(timeoutId)
clearTimeout(op) == IF op.timer = "set" THEN [op EXCEPT !.timer = "cleared"] ELSE op

\* setTimeout(timeoutType, durationMs)
TmSetTimeout(kind, d) ==
  /\ timeouts' = [timeouts EXCEPT ![kind] = d]
  /\ UNCHANGED <<activeTimeouts, tmOps>>
  /\ UNCHANGED nonTmVars

\* withTimeout(executionFn, { timeoutType, customTimeout }) up to the return of
\* the promise: the budget is fixed, the timer set and registered under
\* operationId = Date.now().toString(), executionFn() is called
WithTimeoutStart(i, kind, custom) ==
  LET timeoutMs == IF custom = << >> THEN getTimeout(timeouts, kind)
                   ELSE OrElse(custom[1], getTimeout(timeouts, kind))
  IN /\ tmOps[i].pc = "idle"
     /\ \A j \in TmIds : j < i => tmOps[j].pc # "idle"
     /\ tmOps' = [tmOps EXCEPT ![i] =
                    [IdleTm EXCEPT !.pc = "pending", !.kind = kind,
                                   !.budget = timeoutMs, !.started = now,
                                   !.operationId = now, !.timer = "set",
                                   !.operation = "running"]]
     /\ activeTimeouts' = MapSet(activeTimeouts, now, i)
     /\ UNCHANGED timeouts
     /\ UNCHANGED nonTmVars

\* the operation resolves: the .then callback
TmOperationResolves(i, v) ==
  /\ tmOps[i].operation = "running"
  /\ tmOps' = [tmOps EXCEPT ![i] =
                 Settle([clearTimeout(@) EXCEPT !.operation = "resolved", !.outcome = v],
                        "resolved", v, "-", 0)]
  /\ activeTimeouts' = MapDelete(activeTimeouts, tmOps[i].operationId)
  /\ UNCHANGED timeouts
  /\ UNCHANGED nonTmVars

\* the operation rejects: the .catch callback
TmOperationRejects(i, e) ==
  /\ tmOps[i].operation = "running"
  /\ tmOps' = [tmOps EXCEPT ![i] =
                 Settle([clearTimeout(@) EXCEPT !.operation = "rejected", !.outcome = e],
                        "rejected", "-", e, 0)]
  /\ activeTimeouts' = MapDelete(activeTimeouts, tmOps[i].operationId)
  /\ UNCHANGED timeouts
  /\ UNCHANGED nonTmVars

\* the timer callback, timeoutMs after the call
TmTimerFires(i) ==
  /\ tmOps[i].timer = "set"
  /\ now - tmOps[i].started >= tmOps[i].budget
  /\ tmOps' = [tmOps EXCEPT ![i] =
                 Settle([@ EXCEPT !.timer = "fired"], "rejected", "-",
                        IF @.kind = "connectionAcquisition"
                        THEN ConnectionTimeoutError ELSE DatabaseTimeoutError,
                        @.budget)]
  /\ activeTimeouts' = MapDelete(activeTimeouts, tmOps[i].operationId)
  /\ UNCHANGED timeouts
  /\ UNCHANGED nonTmVars

(***************************************************************************)
(* Session Pool Adapter: DatabricksAdapter                                 *)
(***************************************************************************)
\* concurrent raw(sql) calls
MaxRaw == 3

RawIds == 1..MaxRaw

\* sessions the warehouse opens during one run
MaxOpened == 3

\* stale-session errors the transport raises during one run
MaxStale == 1

\* other failures of the warehouse during one run: failed validations and
\* rejections without the stale-session signature
MaxFaults == 1

MAX_CONNECTION_RETRIES == 3

\* config.pool of the adapters examined
PoolSizes == {[min |-> 1, max |-> 1], [min |-> 1, max |-> 2]}

\* array objects alive at one time: the one of the field and one per iterator
ArrayIds == 0..(MaxRaw + 1)

StaleError == [name |-> "THTTPException", statusCode |-> 400]

ServerError == [name |-> "THTTPException", statusCode |-> 500]

SyntaxError == [name |-> "Error", statusCode |-> 400]

NoError == [name |-> "-", statusCode |-> 0]

\* new Error('Connection pool has been destroyed')
DestroyedError == [name |-> "Error", statusCode |-> 0]

SessErrors == {StaleError, ServerError, SyntaxError}

\* isConnectionError testing the status code only
isConnectionErrorByStatus(error) == error.statusCode = 400

\* isConnectionError(error)
isConnectionError(error) ==
  error.statusCode = 400 /\ error.name = "THTTPException"

IdleRaw == [pc |-> "idle", iter |-> 0, idx |-> 0, valid |-> << >>,
            session |-> 0, retryCount |-> 0, attempts |-> 0, reconnects |-> 0,
            stale |-> 0, result |-> "-", error |-> NoError]

Range(q) == {q[i] : i \in DOMAIN q}

Filter(q, s) == SelectSeq(q, LAMBDA x : x # s)

Front(q) == SubSeq(q, 1, Len(q) - 1)

\* the adapter and its calls as one record
Adapter ==
  [sessions |-> sessions, arrays |-> arrays, avail |-> availableSessions,
   active |-> activeSessions, pending |-> pendingRequests, ops |-> rawOps,
   next |-> nextSession, client |-> dbsqlClient]

\* array objects still referred to: by the field, or by a running for-of loop
Referenced(st) ==
  {st.avail} \cup {st.ops[r].iter : r \in {x \in RawIds : st.ops[x].pc \in {"validating", "closingInvalid"}}}

\* a new array object
NewArray(st) ==
  CHOOSE id \in ArrayIds \ Referenced(st) :
    \A other \in ArrayIds \ Referenced(st) : id <= other

\* array objects nobody refers to are gone
Collect(st) ==
  [st EXCEPT !.arrays = [id \in ArrayIds |-> IF id \in Referenced(st) THEN @[id] ELSE << >>]]

\* acquireSession returns s to raw call r, which calls executeStatement on it
Hand(st, r, s) ==
  [st EXCEPT !.ops[r].session = s, !.ops[r].pc = "executing",
             !.ops[r].attempts = @ + 1, !.ops[r].valid = << >>,
             !.ops[r].iter = 0, !.ops[r].idx = 0]

\* acquireSession after its for-of loop: publish validSessions, then take an
\* available session, or open one, or queue
AfterLoop(st, r) ==
  LET valid == st.ops[r].valid
      new   == NewArray(st)
      st1   == [st EXCEPT !.arrays[new] = valid, !.avail = new]
  IN IF Len(valid) > 0
     THEN Hand([st1 EXCEPT !.arrays[new] = Front(valid),
                           !.active = @ \cup {valid[Len(valid)]}],
               r, valid[Len(valid)])
     ELSE IF Len(st.sessions) < poolSize.max
     THEN [st1 EXCEPT !.ops[r].pc = "opening"]
     ELSE [st1 EXCEPT !.ops[r].pc = "queued", !.pending = Append(@, r)]

\* the head of the for-of loop over the array object the loop started on
LoopHead(st, r) ==
  IF st.ops[r].idx <= Len(st.arrays[st.ops[r].iter])
  THEN [st EXCEPT !.ops[r].pc = "validating"]
  ELSE AfterLoop(st, r)

\* releaseSession handing the session to the newest queued request
releaseSessionNewestFirst(st, s) ==
  LET st1 == [st EXCEPT !.active = @ \ {s}]
  IN IF Len(st1.pending) > 0
     THEN Hand([st1 EXCEPT !.pending = Front(@), !.active = @ \cup {s}],
               st1.pending[Len(st1.pending)], s)
     ELSE [st1 EXCEPT !.arrays[st1.avail] = Append(@, s)]

\* releaseSession(session)
releaseSession(st, s) ==
  LET st1 == [st EXCEPT !.active = @ \ {s}]
  IN IF Len(st1.pending) > 0
     THEN Hand([st1 EXCEPT !.pending = Tail(@), !.active = @ \cup {s}],
               Head(st1.pending), s)
     ELSE [st1 EXCEPT !.arrays[st1.avail] = Append(@, s)]

\* the catch block of raw retrying on every error
CatchAlwaysRetries(st, r, e) ==
  IF st.ops[r].retryCount < MAX_CONNECTION_RETRIES
  THEN [st EXCEPT !.ops[r].pc = "closingClient", !.ops[r].reconnects = @ + 1,
                  !.ops[r].session = 0]
  ELSE [st EXCEPT !.ops[r].pc = "rejected", !.ops[r].error = e,
                  !.ops[r].session = 0]

\* the catch block of raw: recreateConnection() on a stale-session error while
\* retries are left, otherwise throw the error
Catch(st, r, e) ==
  IF isConnectionError(e) /\ st.ops[r].retryCount < MAX_CONNECTION_RETRIES
  THEN [st EXCEPT !.ops[r].pc = "closingClient", !.ops[r].reconnects = @ + 1,
                  !.ops[r].session = 0]
  ELSE [st EXCEPT !.ops[r].pc = "rejected", !.ops[r].error = e,
                  !.ops[r].session = 0]

\* acquireSession() called by raw call r, up to its first await; on a
\* destroyed adapter it throws into the catch block of raw
AcquireBegin(st, r) ==
  IF isDestroyed
  THEN Catch(st, r, DestroyedError)
  ELSE LoopHead([st EXCEPT !.ops[r].iter = st.avail, !.ops[r].idx = 1,
                           !.ops[r].valid = << >>], r)

\* the step leaves the adapter and its calls as st
Becomes(st0) ==
  LET st == Collect(st0)
  IN /\ sessions' = st.sessions
     /\ arrays' = st.arrays
     /\ availableSessions' = st.avail
     /\ activeSessions' = st.active
     /\ pendingRequests' = st.pending
     /\ rawOps' = st.ops
     /\ nextSession' = st.next
     /\ dbsqlClient' = st.client
     /\ UNCHANGED poolSize
     /\ UNCHANGED nonSessVars

\* the warehouse raises error e: within what it raises during one run
Raises(e) ==
  /\ IF e = StaleError THEN staleCount < MaxStale ELSE faultCount < MaxFaults
  /\ staleCount' = IF e = StaleError THEN staleCount + 1 ELSE staleCount
  /\ faultCount' = IF e = StaleError THEN faultCount ELSE faultCount + 1

\* raw(sql) is called: acquireSession() up to its first await
RawStart(r) ==
  /\ rawOps[r].pc = "idle"
  /\ \A q \in RawIds : q < r => rawOps[q].pc # "idle"
  /\ Becomes(AcquireBegin(Adapter, r))
  /\ UNCHANGED <<staleCount, faultCount>>

\* isSessionValid(session) resolves to true
ValidationSucceeds(r) ==
  LET o == rawOps[r]
  IN /\ o.pc = "validating"
     /\ Becomes(LoopHead([Adapter EXCEPT
                            !.ops[r].valid = Append(@, arrays[o.iter][o.idx]),
                            !.ops[r].idx = @ + 1], r))
     /\ UNCHANGED <<staleCount, faultCount>>

\* isSessionValid(session) resolves to false: invalidateSession(session) up to
\* its await session.close()
ValidationFails(r) ==
  LET o == rawOps[r]
      s == arrays[o.iter][o.idx]
      new == NewArray(Adapter)
  IN /\ o.pc = "validating"
     /\ faultCount < MaxFaults
     /\ faultCount' = faultCount + 1
     /\ UNCHANGED staleCount
     /\ Becomes([Adapter EXCEPT
                   !.sessions = Filter(@, s),
                   !.arrays[new] = Filter(arrays[availableSessions], s),
                   !.avail = new,
                   !.active = @ \ {s},
                   !.ops[r].pc = "closingInvalid"])

\* session.close() of invalidateSession settles: the loop goes on
InvalidClosed(r) ==
  /\ rawOps[r].pc = "closingInvalid"
  /\ Becomes(LoopHead([Adapter EXCEPT !.ops[r].idx = @ + 1], r))
  /\ UNCHANGED <<staleCount, faultCount>>

\* client.openSession() of createSession resolves in acquireSession: push to
\* sessions and availableSessions, then availableSessions.pop(), add to active
OpenSessionResolves(r) ==
  LET n == nextSession
  IN /\ rawOps[r].pc = "opening"
     /\ n <= MaxOpened
     /\ Becomes(Hand([Adapter EXCEPT
                        !.sessions = Append(@, n),
                        !.arrays[availableSessions] = Front(Append(@, n)),
                        !.active = @ \cup {n},
                        !.next = n + 1], r, n))
     /\ UNCHANGED <<staleCount, faultCount>>

\* client.openSession() rejects: acquireSession rejects, raw catches
OpenSessionRejects(r, e) ==
  /\ rawOps[r].pc = "opening"
  /\ Raises(e)
  /\ Becomes(Catch([Adapter EXCEPT !.ops[r].stale =
                      IF e = StaleError THEN @ + 1 ELSE @], r, e))

\* executeStatement, fetchAll and operation.close() succeed: releaseSession in
\* the finally block, return the rows
StatementSucceeds(r) ==
  /\ rawOps[r].pc = "executing"
  /\ Becomes([releaseSession(Adapter, rawOps[r].session) EXCEPT
                !.ops[r].pc = "resolved", !.ops[r].result = "rows",
                !.ops[r].session = 0])
  /\ UNCHANGED <<staleCount, faultCount>>

\* the same without the finally block: the session is kept
StatementFailsKeepsSession(r, e) ==
  /\ rawOps[r].pc = "executing"
  /\ Raises(e)
  /\ Becomes(Catch([Adapter EXCEPT
                      !.ops[r].stale = IF e = StaleError THEN @ + 1 ELSE @],
                   r, e))

\* one of them rejects: releaseSession in the finally block, raw catches
StatementFails(r, e) ==
  /\ rawOps[r].pc = "executing"
  /\ Raises(e)
  /\ Becomes(Catch([releaseSession(Adapter, rawOps[r].session) EXCEPT
                      !.ops[r].stale = IF e = StaleError THEN @ + 1 ELSE @],
                   r, e))

\* recreateConnection: client.close() settles; clear the session sets, make a
\* new client and call connect
ClientClosed(r) ==
  /\ rawOps[r].pc = "closingClient"
  /\ Becomes([Adapter EXCEPT
                !.sessions = << >>,
                !.arrays[NewArray(Adapter)] = << >>,
                !.avail = NewArray(Adapter),
                !.active = {},
                !.client = [id |-> (@.id + 1) % (MaxStale + 1), connected |-> FALSE],
                !.ops[r].pc = "connecting"])
  /\ UNCHANGED <<staleCount, faultCount>>

\* recreateConnection: client.connect() resolves; createSession() is called
ConnectResolves(r) ==
  /\ rawOps[r].pc = "connecting"
  /\ Becomes(IF Len(sessions) >= poolSize.max
             THEN [Adapter EXCEPT !.ops[r].pc = "rejected",
                                  !.client.connected = TRUE,
                                  !.ops[r].error = [name |-> "Error: Maximum pool size reached", statusCode |-> 0]]
             ELSE [Adapter EXCEPT !.ops[r].pc = "reopening",
                                  !.client.connected = TRUE])
  /\ UNCHANGED <<staleCount, faultCount>>

\* recreateConnection: client.connect() rejects; raw throws reconnectError
ConnectRejects(r, e) ==
  /\ rawOps[r].pc = "connecting"
  /\ Becomes([Adapter EXCEPT !.ops[r].pc = "rejected", !.ops[r].error = e])
  /\ Raises(e)

\* recreateConnection: openSession of createSession resolves (poolSize.min
\* is 1); retryCount++, continue: acquireSession() up to its first await
ReopenResolves(r) ==
  LET n == nextSession
  IN /\ rawOps[r].pc = "reopening"
     /\ n <= MaxOpened
     /\ Becomes(AcquireBegin([Adapter EXCEPT
                                !.sessions = Append(@, n),
                                !.arrays[availableSessions] = Append(@, n),
                                !.next = n + 1,
                                !.ops[r].retryCount = @ + 1], r))
     /\ UNCHANGED <<staleCount, faultCount>>

\* recreateConnection: openSession rejects; raw throws reconnectError
ReopenRejects(r, e) ==
  /\ rawOps[r].pc = "reopening"
  /\ Becomes([Adapter EXCEPT !.ops[r].pc = "rejected", !.ops[r].error = e])
  /\ Raises(e)

\* the call of the runs in which the transport is stale on every attempt
RetryIds == {1}

\* executeStatement rejects with the stale-session signature, as often as it
\* is tried: releaseSession in the finally block, raw catches
StatementStale(r) ==
  /\ rawOps[r].pc = "executing"
  /\ Becomes(Catch([releaseSession(Adapter, rawOps[r].session) EXCEPT
                      !.ops[r].stale = @ + 1], r, StaleError))
  /\ UNCHANGED <<staleCount, faultCount>>

\* recreateConnection: openSession of createSession resolves, for each of the
\* reconnections the calls can make; retryCount++, continue
ReopenResolvesAgain(r) ==
  LET n == nextSession
  IN /\ rawOps[r].pc = "reopening"
     /\ n <= MaxOpened + MAX_CONNECTION_RETRIES
     /\ Becomes(AcquireBegin([Adapter EXCEPT
                                !.sessions = Append(@, n),
                                !.arrays[availableSessions] = Append(@, n),
                                !.next = n + 1,
                                !.ops[r].retryCount = @ + 1], r))
     /\ UNCHANGED <<staleCount, faultCount>>
(***************************************************************************)
(* Connection manager: closeAll(timeout)                                   *)
(***************************************************************************)
\* closeAll calls made during one run
MaxCloseAll == 2

CloseAllIds == 1..MaxCloseAll

\* the timeout argument: the default of the parameter
CloseTimeouts == {5000}

\* new Error('Pool close timeout')
PoolCloseTimeout == "Pool close timeout"

\* what a failing pool.destroy() rejects with
DestroyErrors == {"ECONNRESET"}

IdleCloseAll ==
  [pc |-> "idle", started |-> 0, timeout |-> 0, promises |-> {}, error |-> "-"]

\* the closePool calls of closeAll call a that still wait for pool.destroy()
Pending(a) == closeAllOps[a].promises \cap closers

\* Promise.all(closePromises) is fulfilled and the continuation of the
\* `await Promise.race` of a call has not run yet
MicrotaskDue ==
  \E a \in CloseAllIds : closeAllOps[a].pc = "racing" /\ Pending(a) = {}

closePoolsSkipOne(ks) == IF ks = {} THEN {} ELSE ks \ {CHOOSE k \in ks : TRUE}

\* Array.from(this.pools.keys()).map(dbKey => this.closePool(dbKey)): the keys
\* closePool is called for
closePools(ks) == ks

\* closeAll(timeout) up to `await Promise.race`: return at once when a
\* shutdown is in progress, else start closePool for every key and the timer
CloseAllStart(a, t) ==
  /\ closeAllOps[a].pc = "idle"
  /\ \A b \in CloseAllIds : b < a => closeAllOps[b].pc # "idle"
  /\ ~MicrotaskDue
  /\ now + t <= MaxTicks * ClockStep
  /\ IF isShuttingDown
     THEN /\ closeAllOps' = [closeAllOps EXCEPT ![a].pc = "returned"]
          /\ UNCHANGED <<isShuttingDown, monitoringIntervals, liveTimers,
                         destroyInvoked, closers, apiClosed>>
     ELSE LET ks == closePools(DOMAIN pools)
              cls == {[key |-> k, inst |-> pools[k]] : k \in ks}
          IN /\ isShuttingDown' = TRUE
             /\ monitoringIntervals' =
                  [k \in (DOMAIN monitoringIntervals) \ ks |-> monitoringIntervals[k]]
             /\ liveTimers' = liveTimers \
                  {monitoringIntervals[k] : k \in ks \cap DOMAIN monitoringIntervals}
             /\ destroyInvoked' = destroyInvoked \cup {pools[k] : k \in ks}
             /\ closers' = closers \cup cls
             /\ apiClosed' = apiClosed \cup {pools[k] : k \in ks}
             /\ closeAllOps' = [closeAllOps EXCEPT ![a] =
                  [pc |-> "racing", started |-> now, timeout |-> t,
                   promises |-> cls, error |-> "-"]]
  /\ UNCHANGED <<hung, destroyed, pools, poolConfigs, poolStats, calls, verified>>
  /\ UNCHANGED nonCloseAllVars

\* every closePool has resolved: Promise.race is fulfilled, closeAll resolves
\* after `finally { this.isShuttingDown = false }`
CloseAllResolves(a) ==
  /\ closeAllOps[a].pc = "racing"
  /\ Pending(a) = {}
  /\ closeAllOps' = [closeAllOps EXCEPT ![a].pc = "resolved"]
  /\ isShuttingDown' = FALSE
  /\ UNCHANGED <<hung, destroyed, poolVars>>
  /\ UNCHANGED nonCloseAllVars

\* the timer of the race fires first: reject(new Error('Pool close timeout'))
CloseAllTimerFires(a) ==
  /\ closeAllOps[a].pc = "racing"
  /\ now - closeAllOps[a].started >= closeAllOps[a].timeout
  /\ Pending(a) # {}
  /\ closeAllOps' = [closeAllOps EXCEPT ![a].pc = "rejected",
                                        ![a].error = PoolCloseTimeout]
  /\ isShuttingDown' = FALSE
  /\ UNCHANGED <<hung, destroyed, poolVars>>
  /\ UNCHANGED nonCloseAllVars

\* pool.destroy() of a closePool call resolves: closePool evicts the entries
\* of its key (as ClosePoolFinish)
DestroyCompletes(cl) ==
  /\ cl \in closers
  /\ cl.inst \notin hung
  /\ closers' = closers \ {cl}
  /\ pools' = MapDelete(pools, cl.key)
  /\ poolConfigs' = MapDelete(poolConfigs, cl.key)
  /\ poolStats' = MapDelete(poolStats, cl.key)
  /\ destroyed' = destroyed \cup {cl.inst}
  /\ UNCHANGED <<isShuttingDown, closeAllOps, hung>>
  /\ UNCHANGED <<monitoringIntervals, liveTimers, destroyInvoked, calls,
                 verified, apiClosed>>
  /\ UNCHANGED nonCloseAllVars

\* pool.destroy() of a closePool call rejects: closePool rethrows, Promise.all
\* and with it the race of the closeAll call that made it reject
DestroyRejects(cl, e) ==
  LET hit == {a \in CloseAllIds :
                closeAllOps[a].pc = "racing" /\ cl \in closeAllOps[a].promises}
  IN /\ cl \in closers
     /\ cl.inst \notin hung
     /\ ~MicrotaskDue
     /\ closers' = closers \ {cl}
     /\ closeAllOps' = [a \in CloseAllIds |->
          IF a \in hit
          THEN [closeAllOps[a] EXCEPT !.pc = "rejected", !.error = e]
          ELSE closeAllOps[a]]
     /\ isShuttingDown' = IF hit # {} THEN FALSE ELSE isShuttingDown
     /\ UNCHANGED <<hung, destroyed>>
     /\ UNCHANGED <<pools, poolConfigs, poolStats, monitoringIntervals, liveTimers,
                    destroyInvoked, calls, verified, apiClosed>>
     /\ UNCHANGED nonCloseAllVars

(***************************************************************************)
(* The process: initConnections, the shutdown handlers, gracefulShutdown   *)
(***************************************************************************)
\* listener invocations during one run
MaxTasks == 3

TaskIds == 1..MaxTasks

\* the configurations of environment.getConfig(): a SELECT-only user on a
\* read-only node, a user with INSERT on a writable node
ConfigProfiles == {"readOnlySelect", "writableInsert"}

\* the key of the c-th entry of Object.entries(dbConfigs)
ConfigKey(c) == IF c = 1 THEN "db1" ELSE "db2"

IdleTask == [pc |-> "idle", kind |-> "-", slot |-> 0]

Running == exited = << >>

\* the closeAll call a listener makes next
FreeSlot ==
  IF \E a \in CloseAllIds : closeAllOps[a].pc = "idle"
  THEN CHOOSE a \in CloseAllIds :
         /\ closeAllOps[a].pc = "idle"
         /\ \A b \in CloseAllIds : closeAllOps[b].pc = "idle" => a <= b
  ELSE 0

\* listener h is between its call of closeAll and closeAll's first statement
TaskCalling(h) ==
  /\ tasks[h].pc = "awaitingCloseAll"
  /\ closeAllOps[tasks[h].slot].pc = "idle"

\* the process runs and no listener is in the middle of a synchronous stretch
Quiet == Running /\ ~\E h \in TaskIds : TaskCalling(h)

\* a closeAll call can be made and its timer can fire within the clock's range
CanCloseAll == FreeSlot # 0 /\ now + 5000 <= MaxTicks * ClockStep

\* shutdownHandler: `if (!this.isShuttingDown) { await this.closeAll() }`
shutdownHandler(kind) ==
  IF isShuttingDown
  THEN [pc |-> "done", kind |-> kind, slot |-> 0]
  ELSE [pc |-> "awaitingCloseAll", kind |-> kind, slot |-> FreeSlot]

\* the process.on('uncaughtException' / 'unhandledRejection') listeners:
\* await shutdownHandler(); process.exit(1)
ExceptionListener(h, kind) ==
  /\ Quiet
  /\ tasks[h].pc = "idle"
  /\ \A g \in TaskIds : g < h => tasks[g].pc # "idle"
  /\ ~isShuttingDown => CanCloseAll
  /\ tasks' = [tasks EXCEPT ![h] = shutdownHandler(kind)]
  /\ exited' = IF isShuttingDown THEN <<1>> ELSE exited
  /\ UNCHANGED <<closeAllVars, poolVars>>
  /\ UNCHANGED nonProcVars

\* initConnections(): `await this.createPool(dbKey, config)` for the next
\* entry of dbConfigs, after the call for the entry before it has resolved
InitCreatePool(c, pn) ==
  /\ Quiet
  /\ \A d \in CallIds : d = c - 1 => calls[d].pc = "resolved"
  /\ CreatePoolStart(c, ConfigKey(c), pn)

\* a createPool of initConnections has rejected: initConnections rethrows, the
\* promise of `connectionManager.initConnections()` has no handler
InitRejected(h) ==
  /\ \E c \in CallIds : calls[c].pc = "rejected"
  /\ \A g \in TaskIds : tasks[g].kind # "unhandledRejection"
  /\ ExceptionListener(h, "unhandledRejection")

\* an exception reaches the event loop
UncaughtException(h) == ExceptionListener(h, "uncaughtException")

\* SIGTERM or SIGINT: the listener of the connection manager, then the one of
\* the MCP server (gracefulShutdown, up to `await server.close()`)
Signal(h) ==
  /\ Quiet
  /\ h + 1 \in TaskIds
  /\ tasks[h].pc = "idle" /\ tasks[h + 1].pc = "idle"
  /\ \A g \in TaskIds : g < h => tasks[g].pc # "idle"
  /\ \A g \in TaskIds : tasks[g].kind # "gracefulShutdown"
  /\ ~isShuttingDown => CanCloseAll
  /\ tasks' = [tasks EXCEPT
                 ![h] = shutdownHandler("shutdownHandler"),
                 ![h + 1] = [pc |-> "closingServer", kind |-> "gracefulShutdown", slot |-> 0]]
  /\ UNCHANGED <<exited, closeAllVars, poolVars>>
  /\ UNCHANGED nonProcVars

\* the closeAll() call of a listener, up to `await Promise.race`
TaskCallsCloseAll(h) ==
  /\ Running
  /\ TaskCalling(h)
  /\ CloseAllStart(tasks[h].slot, 5000)

\* gracefulShutdown: server.close() resolves, `await closeAllConnections()`
ServerClosed(h) ==
  /\ Quiet
  /\ tasks[h].pc = "closingServer"
  /\ CanCloseAll
  /\ tasks' = [tasks EXCEPT ![h].pc = "awaitingCloseAll", ![h].slot = FreeSlot]
  /\ UNCHANGED <<exited, closeAllVars, poolVars>>
  /\ UNCHANGED nonProcVars

\* the closeAll() a listener awaits has settled: shutdownHandler logs a
\* rejection and returns, the exception listeners call process.exit(1),
\* gracefulShutdown process.exit(0) or, from its catch block, process.exit(1)
TaskResumes(h) ==
  LET settled == closeAllOps[tasks[h].slot].pc
  IN /\ Quiet
     /\ tasks[h].pc = "awaitingCloseAll"
     /\ settled \in {"resolved", "rejected", "returned"}
     /\ tasks' = [tasks EXCEPT ![h].pc = "done"]
     /\ exited' = CASE tasks[h].kind = "shutdownHandler" -> exited
                    [] tasks[h].kind = "gracefulShutdown" ->
                         IF settled = "rejected" THEN <<1>> ELSE <<0>>
                    [] OTHER -> <<1>>
     /\ UNCHANGED <<closeAllVars, poolVars>>
     /\ UNCHANGED nonProcVars

(***************************************************************************)
(* getDatabaseList: the sanitized view of the configured databases.        *)
(***************************************************************************)
DbKeys == {"db1", "db2"}

Passwords == {"pw1", "pw2"}

Tokens == {"tok1", "tok2"}

\* TraditionalDBConnection: host, port, user, password, database
TraditionalConfigs ==
  {[client |-> "mysql2", description |-> "orders",
    connection |-> [host |-> "mysql.internal", port |-> 3306, user |-> u,
                    password |-> p, database |-> "shop"]] :
     u \in {"reader"}, p \in Passwords}

\* DatabricksConnection: host, port, path, token
DatabricksConfigs ==
  {[client |-> "databricks", description |-> "warehouse",
    connection |-> [host |-> "dbx.cloud", port |-> 443, path |-> "/sql/1.0/w1",
                    token |-> t]] : t \in Tokens}

DatabaseConfigs == TraditionalConfigs \cup DatabricksConfigs

\* what environment.getConfig() can return: up to two entries, distinct keys
DbConfigLists ==
  {<< >>}
  \cup {<<[dbKey |-> k, config |-> c]>> : k \in DbKeys, c \in DatabaseConfigs}
  \cup {l \in {<<[dbKey |-> k1, config |-> c1], [dbKey |-> k2, config |-> c2]>> :
                   k1 \in DbKeys, k2 \in DbKeys, c1 \in DatabaseConfigs, c2 \in DatabaseConfigs} :
            l[1].dbKey # l[2].dbKey}

\* type guard: 'user' in connection && 'password' in connection && 'database' in connection
isTraditionalDBConnection(connection) ==
  {"user", "password", "database"} \subseteq DOMAIN connection

\* getPoolStats(dbKey): this.poolStats.get(dbKey) || null
NullPoolStats == [null |-> TRUE]

getPoolStats(stats, k) == IF k \in DOMAIN stats THEN stats[k] ELSE NullPoolStats

\* the same with the password copied into the entry
getDatabaseListWithSecrets(cfgs, stats) ==
  [i \in 1..Len(cfgs) |->
     [dbKey |-> cfgs[i].dbKey,
      description |-> cfgs[i].config.description,
      type |-> cfgs[i].config.client,
      host |-> cfgs[i].config.connection.host,
      port |-> cfgs[i].config.connection.port,
      user |-> IF isTraditionalDBConnection(cfgs[i].config.connection)
               THEN cfgs[i].config.connection.password
               ELSE cfgs[i].config.connection.token,
      poolStatus |-> getPoolStats(stats, cfgs[i].dbKey)]]

\* getDatabaseList(): Object.entries(this.dbConfigs).map(...)
getDatabaseList(cfgs, stats) ==
  [i \in 1..Len(cfgs) |->
     [dbKey |-> cfgs[i].dbKey,
      description |-> cfgs[i].config.description,
      type |-> cfgs[i].config.client,
      host |-> cfgs[i].config.connection.host,
      port |-> cfgs[i].config.connection.port,
      user |-> IF isTraditionalDBConnection(cfgs[i].config.connection)
               THEN cfgs[i].config.connection.user
               ELSE "token-auth",
      poolStatus |-> getPoolStats(stats, cfgs[i].dbKey)]]

NoListCall == [configs |-> << >>, stats |-> << >>, returned |-> << >>, done |-> FALSE]

\* initConnections: this.dbConfigs = environment.getConfig()
SetDbConfigs(cfgs) ==
  /\ dbConfigs # cfgs
  /\ dbConfigs' = cfgs
  /\ UNCHANGED listCall
  /\ UNCHANGED nonListVars

\* a caller invokes getDatabaseList()
GetDatabaseList ==
  /\ listCall' = [configs |-> dbConfigs, stats |-> poolStats,
                  returned |-> getDatabaseList(dbConfigs, poolStats), done |-> TRUE]
  /\ UNCHANGED dbConfigs
  /\ UNCHANGED nonListVars

(***************************************************************************)
(* isDatabricksReadOnlySession: the warehouse permission verifier.         *)
(***************************************************************************)
KwModify == <<"M","O","D","I","F","Y">>

KwWriteFiles == <<"W","R","I","T","E","_","F","I","L","E","S">>

KwRefresh == <<"R","E","F","R","E","S","H">>

\* const writePermissions = [...]
writePermissions ==
  {KwCreate, KwModify, KwDelete, KwDrop, KwAlter, KwUpdate, KwInsert, KwWriteFiles, KwRefresh}

\* the column names a grant row can carry its action under, in the order read
ActionColumns == <<"action_type", "ActionType", "privilege", "Privilege">>

\* grant.action_type || grant.ActionType || grant.privilege || grant.Privilege || ''
GrantAction(grant) ==
  LET filled == {i \in 1..Len(ActionColumns) :
                   /\ ActionColumns[i] \in DOMAIN grant
                   /\ grant[ActionColumns[i]] # << >>}
  IN IF filled = {} THEN << >>
     ELSE grant[ActionColumns[CHOOSE i \in filled : \A j \in filled : i <= j]]

\* writePermissions.some(perm => upperAction.includes(perm))
IsWriteAction(action) ==
  \E perm \in writePermissions : Includes(ToUpperCase(action), perm)

\* the loop over allGrants with every grant counted as harmless
ParseGrantsIgnoringWrites(allGrants) == "true"

\* the loop over allGrants, lines 64-91: false at the first write action
ParseGrants(allGrants) ==
  IF \E i \in 1..Len(allGrants) : IsWriteAction(GrantAction(allGrants[i]))
  THEN "false" ELSE "true"

\* rows that SHOW GRANTS can return
GrantSelect == [Principal |-> <<"u">>, action_type |-> RowSelect]

GrantUseCatalog == [Principal |-> <<"u">>, ActionType |-> <<"U","S","E"," ","C","A","T","A","L","O","G">>]

GrantExecute == [Principal |-> <<"u">>, Privilege |-> RowExecute]

GrantModify == [Principal |-> <<"u">>, ActionType |-> KwModify]

GrantWriteFilesLower ==
  [Principal |-> <<"u">>, action_type |-> << >>,
   privilege |-> <<"w","r","i","t","e","_","f","i","l","e","s">>]

GrantNoColumn == [Principal |-> <<"u">>]

GrantResults ==
  {<< >>, <<GrantSelect>>, <<GrantExecute>>, <<GrantModify>>,
   <<GrantUseCatalog, GrantWriteFilesLower>>, <<GrantNoColumn, GrantSelect>>}

\* what SELECT current_catalog() / current_schema() can answer ("" for none)
CatalogNames == {"main", ""}

SchemaNames == {"default", ""}

\* messages of a rejected CREATE OR REPLACE TEMPORARY VIEW
CreateErrors == {"PERMISSION_DENIED", "socket hang up"}

SqlUser == "SELECT current_user()"

SqlCatalog == "SELECT current_catalog()"

SqlCatalogGrants == "SHOW GRANTS ON CATALOG"

SqlSchema == "SELECT current_schema()"

SqlSchemaGrants == "SHOW GRANTS ON SCHEMA"

SqlCreateView == "CREATE OR REPLACE TEMPORARY VIEW"

SqlDropView == "DROP VIEW IF EXISTS"

Settled(sql, arg, ok) == [sql |-> sql, arg |-> arg, ok |-> ok]

IdleDbxCheck ==
  [pc |-> "idle", currentCatalog |-> "", currentSchema |-> "", allGrants |-> << >>,
   testViewName |-> 0, result |-> "-"]

\* the call: the first statement is sent
DbxStart ==
  /\ dbxCheck.pc = "idle"
  /\ dbxCheck' = [dbxCheck EXCEPT !.pc = SqlUser]
  /\ UNCHANGED rawLog
  /\ UNCHANGED nonDbxVars

\* SELECT current_user() resolves
DbxUserResolves ==
  /\ dbxCheck.pc = SqlUser
  /\ rawLog' = Append(rawLog, Settled(SqlUser, "", TRUE))
  /\ dbxCheck' = [dbxCheck EXCEPT !.pc = SqlCatalog]
  /\ UNCHANGED nonDbxVars

\* SELECT current_catalog() resolves
DbxCatalogResolves(catalog) ==
  /\ dbxCheck.pc = SqlCatalog
  /\ rawLog' = Append(rawLog, Settled(SqlCatalog, "", TRUE))
  /\ dbxCheck' = [dbxCheck EXCEPT !.currentCatalog = catalog,
                                  !.pc = IF catalog # "" THEN SqlCatalogGrants ELSE SqlSchema]
  /\ UNCHANGED nonDbxVars

\* one of the first two statements rejects: the outer catch returns true
DbxContextRejects ==
  /\ dbxCheck.pc \in {SqlUser, SqlCatalog}
  /\ rawLog' = Append(rawLog, Settled(dbxCheck.pc, "", FALSE))
  /\ dbxCheck' = [dbxCheck EXCEPT !.pc = "returned", !.result = "true"]
  /\ UNCHANGED nonDbxVars

\* SHOW GRANTS ON CATALOG resolves: its rows are pushed
DbxCatalogGrantsResolve(rows) ==
  /\ dbxCheck.pc = SqlCatalogGrants
  /\ rawLog' = Append(rawLog, Settled(SqlCatalogGrants, dbxCheck.currentCatalog, TRUE))
  /\ dbxCheck' = [dbxCheck EXCEPT !.allGrants = @ \o rows, !.pc = SqlSchema]
  /\ UNCHANGED nonDbxVars

\* SELECT current_schema() resolves: schema grants are asked for, or the grants are parsed
DbxSchemaResolves(schema) ==
  /\ dbxCheck.pc = SqlSchema
  /\ rawLog' = Append(rawLog, Settled(SqlSchema, "", TRUE))
  /\ dbxCheck' =
       IF schema # "" /\ dbxCheck.currentCatalog # ""
       THEN [dbxCheck EXCEPT !.currentSchema = schema, !.pc = SqlSchemaGrants]
       ELSE [dbxCheck EXCEPT !.currentSchema = schema, !.pc = "returned",
                             !.result = ParseGrants(dbxCheck.allGrants)]
  /\ UNCHANGED nonDbxVars

\* SHOW GRANTS ON SCHEMA resolves: its rows are pushed and the grants are parsed
DbxSchemaGrantsResolve(rows) ==
  /\ dbxCheck.pc = SqlSchemaGrants
  /\ rawLog' = Append(rawLog, Settled(SqlSchemaGrants, dbxCheck.currentSchema, TRUE))
  /\ dbxCheck' = [dbxCheck EXCEPT !.allGrants = @ \o rows, !.pc = "returned",
                                  !.result = ParseGrants(dbxCheck.allGrants \o rows)]
  /\ UNCHANGED nonDbxVars

\* SHOW GRANTS ON SCHEMA rejects: ignored, the grants collected so far are parsed
DbxSchemaGrantsReject ==
  /\ dbxCheck.pc = SqlSchemaGrants
  /\ rawLog' = Append(rawLog, Settled(SqlSchemaGrants, dbxCheck.currentSchema, FALSE))
  /\ dbxCheck' = [dbxCheck EXCEPT !.pc = "returned",
                                  !.result = ParseGrants(dbxCheck.allGrants)]
  /\ UNCHANGED nonDbxVars

\* SHOW GRANTS ON CATALOG or SELECT current_schema() rejects: the catch of
\* line 93 sends the CREATE of the probe, named after Date.now()
DbxEnumerationRejects ==
  /\ dbxCheck.pc \in {SqlCatalogGrants, SqlSchema}
  /\ rawLog' = Append(rawLog, Settled(dbxCheck.pc, "", FALSE))
  /\ dbxCheck' = [dbxCheck EXCEPT !.pc = SqlCreateView, !.testViewName = now]
  /\ UNCHANGED nonDbxVars

\* the CREATE of the probe resolves: the DROP is sent
DbxCreateResolves ==
  /\ dbxCheck.pc = SqlCreateView
  /\ rawLog' = Append(rawLog, Settled(SqlCreateView, dbxCheck.testViewName, TRUE))
  /\ dbxCheck' = [dbxCheck EXCEPT !.pc = SqlDropView]
  /\ UNCHANGED nonDbxVars

\* the same with every failure of the CREATE read as write capability
DbxCreateRejectsFailOpen(msg) ==
  /\ dbxCheck.pc = SqlCreateView
  /\ rawLog' = Append(rawLog, Settled(SqlCreateView, dbxCheck.testViewName, FALSE))
  /\ dbxCheck' = [dbxCheck EXCEPT !.pc = "returned",
                                  !.result = IF msg = "PERMISSION_DENIED" THEN "true" ELSE "false"]
  /\ UNCHANGED nonDbxVars

\* the CREATE of the probe rejects: true, for a permission message and for any other
DbxCreateRejects(msg) ==
  /\ dbxCheck.pc = SqlCreateView
  /\ rawLog' = Append(rawLog, Settled(SqlCreateView, dbxCheck.testViewName, FALSE))
  /\ dbxCheck' = [dbxCheck EXCEPT !.pc = "returned", !.result = "true"]
  /\ UNCHANGED nonDbxVars

\* the DROP of the probe settles, either way: false
DbxDropSettles(ok) ==
  /\ dbxCheck.pc = SqlDropView
  /\ rawLog' = Append(rawLog, Settled(SqlDropView, dbxCheck.testViewName, ok))
  /\ dbxCheck' = [dbxCheck EXCEPT !.pc = "returned", !.result = "false"]
  /\ UNCHANGED nonDbxVars

(***************************************************************************)
(* The monitor tick of a warehouse pool.                                   *)
(***************************************************************************)
\* the raw calls that run next to the monitor
StatsRawIds == {1, 2}

WarehouseKey == "db1"

\* DatabricksAdapter.getPoolStatus() on given session sets
getPoolStatus(active, available, pending) ==
  [activeConnections |-> Cardinality(active),
   idleConnections |-> Len(available),
   pendingAcquisitions |-> Len(pending),
   used |-> Cardinality(active),
   free |-> Len(available)]

\* toKnexCompatible().client.pool: getPoolStatus() is evaluated once, when
\* createPool builds the wrapper after initialize()
toKnexCompatibleClientPool ==
  getPoolStatus({}, [i \in 1..poolSize.min |-> i], << >>)

\* poolInfo.<name> || 0
PropertyOrZero(poolInfo, name) ==
  IF name \in DOMAIN poolInfo THEN poolInfo[name] ELSE 0

\* _getPoolStatus(pool, dbKey) on pool.client.pool
getPoolStatusOfPool(poolInfo) ==
  LET used == PropertyOrZero(poolInfo, "numUsed")
      free == PropertyOrZero(poolInfo, "numFree")
      pending == PropertyOrZero(poolInfo, "numPendingAcquires")
  IN [activeConnections |-> used, idleConnections |-> free,
      pendingAcquisitions |-> pending, used |-> used, free |-> free]

\* { ...currentStats, ...poolStats, lastUpdated }
MergeStats(currentStats, status, at) ==
  [f \in DOMAIN currentStats \cup DOMAIN status \cup {"lastUpdated"} |->
     IF f = "lastUpdated" THEN at
     ELSE IF f \in DOMAIN status THEN status[f]
     ELSE currentStats[f]]

\* the setInterval callback of _startPoolMonitoring for the warehouse pool
MonitorTick(k) ==
  /\ k \in DOMAIN monitoringIntervals
  /\ monitoringIntervals[k] \in liveTimers
  /\ k \in DOMAIN pools
  /\ k \in DOMAIN poolStats
  /\ poolStats' = MapSet(poolStats, k,
                         MergeStats(poolStats[k],
                                    getPoolStatusOfPool(toKnexCompatibleClientPool), now))
  /\ UNCHANGED <<pools, poolConfigs, monitoringIntervals, liveTimers,
                 destroyInvoked, calls, closers, verified, apiClosed>>
  /\ UNCHANGED nonPoolVars

(***************************************************************************)
(* DatabricksAdapter.destroy                                               *)
(***************************************************************************)
\* destroy() is called: isDestroyed is set, then the sessions and the client
\* are closed one await after the other
DestroyStart ==
  /\ ~isDestroyed
  /\ isDestroyed' = TRUE
  /\ destroyPc' = "closing"
  /\ UNCHANGED sessVars
  /\ UNCHANGED nonDestroyVars

\* destroy() after its last await: the three collections and the queue of
\* resolvers are replaced or cleared; no queued resolver is called
DestroyFinish ==
  LET st == Collect([Adapter EXCEPT !.sessions = << >>,
                                    !.arrays[NewArray(Adapter)] = << >>,
                                    !.avail = NewArray(Adapter),
                                    !.active = {},
                                    !.pending = << >>])
  IN /\ destroyPc = "closing"
     /\ destroyPc' = "done"
     /\ sessions' = st.sessions
     /\ arrays' = st.arrays
     /\ availableSessions' = st.avail
     /\ activeSessions' = st.active
     /\ pendingRequests' = st.pending
     /\ UNCHANGED <<isDestroyed, poolSize, dbsqlClient, nextSession, staleCount,
                    faultCount, rawOps>>
     /\ UNCHANGED nonDestroyVars


(***************************************************************************)
(* Specifications                                                          *)
(***************************************************************************)
\* the verifier runs once against every server state
InitPerm ==
  /\ srvInnodb \in FlagValues
  /\ srvReadOnly \in FlagValues
  /\ srvSuperRO \in FlagValues
  /\ srvGrants \in GrantLists
  /\ vPc = "flags"
  /\ vLocals = NoLocals
  /\ vResult = "none"
  /\ dbBreakers = EmptyMap
  /\ monitoringTimer = TRUE
  /\ sweepTimers = 1
  /\ now = 0
  /\ cbLast = [op |-> "new", key |-> "-", result |-> TRUE]
  /\ failStreak = [k \in Keys |-> 0]
  /\ enteredOpen = [k \in Keys |-> NoTime]
  /\ halfOpenSucc = [k \in Keys |-> 0]
  /\ execOps = [o \in OpIds |-> IdleOp]
  /\ pools = EmptyMap
  /\ poolConfigs = EmptyMap
  /\ poolStats = EmptyMap
  /\ monitoringIntervals = EmptyMap
  /\ liveTimers = {}
  /\ destroyInvoked = {}
  /\ calls = [c \in CallIds |-> IdleCall]
  /\ closers = {}
  /\ verified = {}
  /\ apiClosed = {}
  /\ queryOps = [q \in QueryIds |-> IdleQuery]
  /\ acquired = {}
  /\ poolSize = [min |-> 1, max |-> 1]
  /\ dbsqlClient = [id |-> 0, connected |-> TRUE]
  /\ sessions = <<1>>
  /\ arrays = [id \in ArrayIds |-> IF id = 0 THEN <<1>> ELSE << >>]
  /\ availableSessions = 0
  /\ activeSessions = {}
  /\ pendingRequests = << >>
  /\ nextSession = 2
  /\ staleCount = 0
  /\ faultCount = 0
  /\ rawOps = [r \in RawIds |-> IdleRaw]
  /\ timeouts = DEFAULT_TIMEOUTS
  /\ activeTimeouts = EmptyMap
  /\ tmOps = [i \in TmIds |-> IdleTm]
  /\ isShuttingDown = FALSE
  /\ closeAllOps = [a \in CloseAllIds |-> IdleCloseAll]
  /\ hung = {}
  /\ destroyed = {}
  /\ tasks = [h \in TaskIds |-> IdleTask]
  /\ exited = << >>
  /\ dbConfigs = << >>
  /\ listCall = NoListCall
  /\ dbxCheck = IdleDbxCheck
  /\ rawLog = << >>
  /\ isDestroyed = FALSE
  /\ destroyPc = "idle"

\* the state after the constructors: no breaker, no pool, no call in flight
InitIdle ==
  /\ srvInnodb = "OFF"
  /\ srvReadOnly = "OFF"
  /\ srvSuperRO = "OFF"
  /\ srvGrants = << >>
  /\ vPc = "idle"
  /\ vLocals = NoLocals
  /\ vResult = "none"
  /\ dbBreakers = EmptyMap
  /\ monitoringTimer = TRUE
  /\ sweepTimers = 1
  /\ now = 0
  /\ cbLast = [op |-> "new", key |-> "-", result |-> TRUE]
  /\ failStreak = [k \in Keys |-> 0]
  /\ enteredOpen = [k \in Keys |-> NoTime]
  /\ halfOpenSucc = [k \in Keys |-> 0]
  /\ execOps = [o \in OpIds |-> IdleOp]
  /\ pools = EmptyMap
  /\ poolConfigs = EmptyMap
  /\ poolStats = EmptyMap
  /\ monitoringIntervals = EmptyMap
  /\ liveTimers = {}
  /\ destroyInvoked = {}
  /\ calls = [c \in CallIds |-> IdleCall]
  /\ closers = {}
  /\ verified = {}
  /\ apiClosed = {}
  /\ queryOps = [q \in QueryIds |-> IdleQuery]
  /\ acquired = {}
  /\ poolSize = [min |-> 1, max |-> 1]
  /\ dbsqlClient = [id |-> 0, connected |-> TRUE]
  /\ sessions = <<1>>
  /\ arrays = [id \in ArrayIds |-> IF id = 0 THEN <<1>> ELSE << >>]
  /\ availableSessions = 0
  /\ activeSessions = {}
  /\ pendingRequests = << >>
  /\ nextSession = 2
  /\ staleCount = 0
  /\ faultCount = 0
  /\ rawOps = [r \in RawIds |-> IdleRaw]
  /\ timeouts = DEFAULT_TIMEOUTS
  /\ activeTimeouts = EmptyMap
  /\ tmOps = [i \in TmIds |-> IdleTm]
  /\ isShuttingDown = FALSE
  /\ closeAllOps = [a \in CloseAllIds |-> IdleCloseAll]
  /\ hung = {}
  /\ destroyed = {}
  /\ tasks = [h \in TaskIds |-> IdleTask]
  /\ exited = << >>
  /\ dbConfigs = << >>
  /\ listCall = NoListCall
  /\ dbxCheck = IdleDbxCheck
  /\ rawLog = << >>
  /\ isDestroyed = FALSE
  /\ destroyPc = "idle"

\* the same, with at most one pool whose destroy() will never settle
InitCloseAll ==
  /\ srvInnodb = "OFF"
  /\ srvReadOnly = "OFF"
  /\ srvSuperRO = "OFF"
  /\ srvGrants = << >>
  /\ vPc = "idle"
  /\ vLocals = NoLocals
  /\ vResult = "none"
  /\ dbBreakers = EmptyMap
  /\ monitoringTimer = TRUE
  /\ sweepTimers = 1
  /\ now = 0
  /\ cbLast = [op |-> "new", key |-> "-", result |-> TRUE]
  /\ failStreak = [k \in Keys |-> 0]
  /\ enteredOpen = [k \in Keys |-> NoTime]
  /\ halfOpenSucc = [k \in Keys |-> 0]
  /\ execOps = [o \in OpIds |-> IdleOp]
  /\ pools = EmptyMap
  /\ poolConfigs = EmptyMap
  /\ poolStats = EmptyMap
  /\ monitoringIntervals = EmptyMap
  /\ liveTimers = {}
  /\ destroyInvoked = {}
  /\ calls = [c \in CallIds |-> IdleCall]
  /\ closers = {}
  /\ verified = {}
  /\ apiClosed = {}
  /\ queryOps = [q \in QueryIds |-> IdleQuery]
  /\ acquired = {}
  /\ poolSize = [min |-> 1, max |-> 1]
  /\ dbsqlClient = [id |-> 0, connected |-> TRUE]
  /\ sessions = <<1>>
  /\ arrays = [id \in ArrayIds |-> IF id = 0 THEN <<1>> ELSE << >>]
  /\ availableSessions = 0
  /\ activeSessions = {}
  /\ pendingRequests = << >>
  /\ nextSession = 2
  /\ staleCount = 0
  /\ faultCount = 0
  /\ rawOps = [r \in RawIds |-> IdleRaw]
  /\ timeouts = DEFAULT_TIMEOUTS
  /\ activeTimeouts = EmptyMap
  /\ tmOps = [i \in TmIds |-> IdleTm]
  /\ isShuttingDown = FALSE
  /\ closeAllOps = [a \in CloseAllIds |-> IdleCloseAll]
  /\ hung \in {h \in SUBSET CallIds : Cardinality(h) <= 1}
  /\ destroyed = {}
  /\ tasks = [h \in TaskIds |-> IdleTask]
  /\ exited = << >>
  /\ dbConfigs = << >>
  /\ listCall = NoListCall
  /\ dbxCheck = IdleDbxCheck
  /\ rawLog = << >>
  /\ isDestroyed = FALSE
  /\ destroyPc = "idle"

\* an adapter after initialize(): connected, poolSize.min sessions opened
InitSess ==
  /\ srvInnodb = "OFF"
  /\ srvReadOnly = "OFF"
  /\ srvSuperRO = "OFF"
  /\ srvGrants = << >>
  /\ vPc = "idle"
  /\ vLocals = NoLocals
  /\ vResult = "none"
  /\ dbBreakers = EmptyMap
  /\ monitoringTimer = TRUE
  /\ sweepTimers = 1
  /\ now = 0
  /\ cbLast = [op |-> "new", key |-> "-", result |-> TRUE]
  /\ failStreak = [k \in Keys |-> 0]
  /\ enteredOpen = [k \in Keys |-> NoTime]
  /\ halfOpenSucc = [k \in Keys |-> 0]
  /\ execOps = [o \in OpIds |-> IdleOp]
  /\ pools = EmptyMap
  /\ poolConfigs = EmptyMap
  /\ poolStats = EmptyMap
  /\ monitoringIntervals = EmptyMap
  /\ liveTimers = {}
  /\ destroyInvoked = {}
  /\ calls = [c \in CallIds |-> IdleCall]
  /\ closers = {}
  /\ verified = {}
  /\ apiClosed = {}
  /\ queryOps = [q \in QueryIds |-> IdleQuery]
  /\ acquired = {}
  /\ poolSize \in PoolSizes
  /\ dbsqlClient = [id |-> 0, connected |-> TRUE]
  /\ sessions = <<1>>
  /\ arrays = [id \in ArrayIds |-> IF id = 0 THEN <<1>> ELSE << >>]
  /\ availableSessions = 0
  /\ activeSessions = {}
  /\ pendingRequests = << >>
  /\ nextSession = 2
  /\ staleCount = 0
  /\ faultCount = 0
  /\ rawOps = [r \in RawIds |-> IdleRaw]
  /\ timeouts = DEFAULT_TIMEOUTS
  /\ activeTimeouts = EmptyMap
  /\ tmOps = [i \in TmIds |-> IdleTm]
  /\ isShuttingDown = FALSE
  /\ closeAllOps = [a \in CloseAllIds |-> IdleCloseAll]
  /\ hung = {}
  /\ destroyed = {}
  /\ tasks = [h \in TaskIds |-> IdleTask]
  /\ exited = << >>
  /\ dbConfigs = << >>
  /\ listCall = NoListCall
  /\ dbxCheck = IdleDbxCheck
  /\ rawLog = << >>
  /\ isDestroyed = FALSE
  /\ destroyPc = "idle"

\* the same adapter registered by a createPool that has resolved: pool,
\* statistics and monitor timer of the warehouse key are in place
InitStats ==
  /\ srvInnodb = "OFF"
  /\ srvReadOnly = "OFF"
  /\ srvSuperRO = "OFF"
  /\ srvGrants = << >>
  /\ vPc = "idle"
  /\ vLocals = NoLocals
  /\ vResult = "none"
  /\ dbBreakers = EmptyMap
  /\ monitoringTimer = TRUE
  /\ sweepTimers = 1
  /\ now = 0
  /\ cbLast = [op |-> "new", key |-> "-", result |-> TRUE]
  /\ failStreak = [k \in Keys |-> 0]
  /\ enteredOpen = [k \in Keys |-> NoTime]
  /\ halfOpenSucc = [k \in Keys |-> 0]
  /\ execOps = [o \in OpIds |-> IdleOp]
  /\ pools = MapSet(EmptyMap, WarehouseKey, 1)
  /\ poolConfigs = MapSet(EmptyMap, WarehouseKey, 1)
  /\ poolStats = MapSet(EmptyMap, WarehouseKey, NewPoolStats)
  /\ monitoringIntervals = MapSet(EmptyMap, WarehouseKey, 1)
  /\ liveTimers = {1}
  /\ destroyInvoked = {}
  /\ calls = [c \in CallIds |->
               IF c = 1 THEN [pc |-> "resolved", key |-> WarehouseKey,
                              profile |-> "warehouseRO", error |-> "-"]
               ELSE IdleCall]
  /\ closers = {}
  /\ verified = {1}
  /\ apiClosed = {}
  /\ queryOps = [q \in QueryIds |-> IdleQuery]
  /\ acquired = {}
  /\ poolSize \in PoolSizes
  /\ dbsqlClient = [id |-> 0, connected |-> TRUE]
  /\ sessions = <<1>>
  /\ arrays = [id \in ArrayIds |-> IF id = 0 THEN <<1>> ELSE << >>]
  /\ availableSessions = 0
  /\ activeSessions = {}
  /\ pendingRequests = << >>
  /\ nextSession = 2
  /\ staleCount = 0
  /\ faultCount = 0
  /\ rawOps = [r \in RawIds |-> IdleRaw]
  /\ timeouts = DEFAULT_TIMEOUTS
  /\ activeTimeouts = EmptyMap
  /\ tmOps = [i \in TmIds |-> IdleTm]
  /\ isShuttingDown = FALSE
  /\ closeAllOps = [a \in CloseAllIds |-> IdleCloseAll]
  /\ hung = {}
  /\ destroyed = {}
  /\ tasks = [h \in TaskIds |-> IdleTask]
  /\ exited = << >>
  /\ dbConfigs = << >>
  /\ listCall = NoListCall
  /\ dbxCheck = IdleDbxCheck
  /\ rawLog = << >>
  /\ isDestroyed = FALSE
  /\ destroyPc = "idle"

NextPerm ==
  \/ VerifierReadFlags
  \/ VerifierReadGrants
  \/ VerifierDecide
  \/ VerifierStatementFails

NextCB ==
  \/ \E k \in Keys : CallIsAllowed(k)
  \/ \E k \in Keys : CallRecordSuccess(k)
  \/ \E k \in Keys : CallRecordFailure(k)
  \/ \E k \in Keys : CallReset(k)
  \/ MonitorSweep
  \/ ClockTick

\* a breaker under failures only, with the monitor started and stopped
NextMon ==
  \/ \E k \in Keys : CallRecordFailure(k)
  \/ \E k \in Keys : CallIsAllowed(k)
  \/ MonitorSweep
  \/ ClockTick
  \/ CallStartMonitoring
  \/ CallStopMonitoring
  \/ CallDestroy

NextExec ==
  \/ \E o \in OpIds, k \in ExecKeys : ExecCall(o, k)
  \/ \E o \in OpIds, v \in OpValues : ExecOperationResolves(o, v)
  \/ \E o \in OpIds, e \in OpErrors : ExecOperationRejects(o, e)
  \/ \E o \in OpIds : ExecReturn(o)
  \/ MonitorSweep
  \/ ClockTick

NextPool ==
  \/ \E c \in CallIds, k \in PoolKeys, pn \in ProfileNames : CreatePoolStart(c, k, pn)
  \/ \E c \in CallIds : CreatePoolInitialized(c)
  \/ \E c \in CallIds : CreatePoolInitializeFails(c)
  \/ \E c \in CallIds : ProbeSucceeds(c)
  \/ \E c \in CallIds, e \in ProbeErrors : ProbeFails(c, e)
  \/ \E c \in CallIds : VerifierAccepts(c)
  \/ \E c \in CallIds : VerifierRefuses(c)
  \/ \E c \in CallIds : VerifierThrows(c)
  \/ \E c \in CallIds : RefuseCleans(c)
  \/ \E c \in CallIds : CatchCleans(c)
  \/ \E k \in PoolKeys : ClosePoolStart(k)
  \/ \E cl \in closers : ClosePoolFinish(cl)

\* queries on the pools of the registry, next to other traffic of the breaker
NextQuery ==
  \/ \E c \in CallIds, k \in PoolKeys, pn \in ProfileNames : CreatePoolStart(c, k, pn)
  \/ \E c \in CallIds : ProbeSucceeds(c)
  \/ \E c \in CallIds : VerifierAccepts(c)
  \/ \E k \in PoolKeys : CallRecordFailure(k)
  \/ ClockTick
  \/ \E q \in QueryIds, k \in PoolKeys : ExecuteQueryStart(q, k)
  \/ \E q \in QueryIds : QueryResolves(q)
  \/ \E q \in QueryIds, e \in QueryErrors : QueryRejects(q, e)
  \/ \E q \in QueryIds : QueryTimesOut(q)

NextTm ==
  \/ \E kind \in TimeoutTypes, d \in Durations : TmSetTimeout(kind, d)
  \/ \E i \in TmIds, kind \in TimeoutTypes, custom \in CustomTimeouts :
        WithTimeoutStart(i, kind, custom)
  \/ \E i \in TmIds, v \in OpValues : TmOperationResolves(i, v)
  \/ \E i \in TmIds, e \in OpErrors : TmOperationRejects(i, e)
  \/ \E i \in TmIds : TmTimerFires(i)
  \/ ClockTick

\* createPool with the answers of the backend and the timers of the code
NextCreate ==
  \/ \E c \in CallIds, k \in PoolKeys, pn \in ProfileNames : CreatePoolStart(c, k, pn)
  \/ \E c \in CallIds : CreatePoolInitialized(c)
  \/ \E c \in CallIds : CreatePoolInitializeFails(c)
  \/ \E c \in CallIds : ProbeAcquired(c)
  \/ \E c \in CallIds : AcquireTimesOut(c)
  \/ \E c \in CallIds : ProbeSucceeds(c)
  \/ \E c \in CallIds, e \in ProbeErrors : ProbeFails(c, e)
  \/ \E c \in CallIds : VerifierAccepts(c)
  \/ \E c \in CallIds : VerifierRefuses(c)
  \/ \E c \in CallIds : VerifierThrows(c)
  \/ \E c \in CallIds : RefuseCleans(c)
  \/ \E c \in CallIds : CatchCleans(c)
  \/ \E cl \in closers : ClosePoolFinish(cl)

NextSess ==
  \/ \E r \in RawIds : RawStart(r)
  \/ \E r \in RawIds : ValidationSucceeds(r)
  \/ \E r \in RawIds : ValidationFails(r)
  \/ \E r \in RawIds : InvalidClosed(r)
  \/ \E r \in RawIds : OpenSessionResolves(r)
  \/ \E r \in RawIds, e \in SessErrors : OpenSessionRejects(r, e)
  \/ \E r \in RawIds : StatementSucceeds(r)
  \/ \E r \in RawIds, e \in SessErrors : StatementFails(r, e)
  \/ \E r \in RawIds : ClientClosed(r)
  \/ \E r \in RawIds : ConnectResolves(r)
  \/ \E r \in RawIds, e \in SessErrors : ConnectRejects(r, e)
  \/ \E r \in RawIds : ReopenResolves(r)
  \/ \E r \in RawIds, e \in SessErrors : ReopenRejects(r, e)

\* raw calls on the adapter while destroy() runs
NextDestroy ==
  \/ \E r \in StatsRawIds : RawStart(r)
  \/ \E r \in StatsRawIds : ValidationSucceeds(r)
  \/ \E r \in StatsRawIds : ValidationFails(r)
  \/ \E r \in StatsRawIds : InvalidClosed(r)
  \/ \E r \in StatsRawIds : OpenSessionResolves(r)
  \/ \E r \in StatsRawIds, e \in SessErrors : OpenSessionRejects(r, e)
  \/ \E r \in StatsRawIds : StatementSucceeds(r)
  \/ \E r \in StatsRawIds, e \in SessErrors : StatementFails(r, e)
  \/ \E r \in StatsRawIds : ClientClosed(r)
  \/ \E r \in StatsRawIds : ConnectResolves(r)
  \/ \E r \in StatsRawIds, e \in SessErrors : ConnectRejects(r, e)
  \/ \E r \in StatsRawIds : ReopenResolves(r)
  \/ \E r \in StatsRawIds, e \in SessErrors : ReopenRejects(r, e)
  \/ DestroyStart
  \/ DestroyFinish

SpecDestroy == InitSess /\ [][NextDestroy]_vars

\* registered pools and closeAll calls, with the clock of the timers
NextCloseAll ==
  \/ \E c \in CallIds, k \in Keys : CreatePoolStart(c, k, "readOnlySelect")
  \/ \E c \in CallIds : ProbeSucceeds(c)
  \/ \E c \in CallIds : VerifierAccepts(c)
  \/ \E a \in CloseAllIds, t \in CloseTimeouts : CloseAllStart(a, t)
  \/ \E a \in CloseAllIds : CloseAllResolves(a)
  \/ \E a \in CloseAllIds : CloseAllTimerFires(a)
  \/ \E cl \in closers : DestroyCompletes(cl)
  \/ \E cl \in closers, e \in DestroyErrors : DestroyRejects(cl, e)
  \/ ClockTick

\* the process from module load to process.exit
NextProc ==
  \/ \E c \in CallIds, pn \in ConfigProfiles : InitCreatePool(c, pn)
  \/ Quiet /\ \E c \in CallIds : ProbeSucceeds(c)
  \/ Quiet /\ \E c \in CallIds : VerifierAccepts(c)
  \/ Quiet /\ \E c \in CallIds : VerifierRefuses(c)
  \/ Quiet /\ \E c \in CallIds : RefuseCleans(c)
  \/ Quiet /\ \E c \in CallIds : CatchCleans(c)
  \/ \E h \in TaskIds : InitRejected(h)
  \/ \E h \in TaskIds : UncaughtException(h)
  \/ \E h \in TaskIds : Signal(h)
  \/ \E h \in TaskIds : TaskCallsCloseAll(h)
  \/ \E h \in TaskIds : ServerClosed(h)
  \/ \E h \in TaskIds : TaskResumes(h)
  \/ Quiet /\ \E a \in CloseAllIds : CloseAllResolves(a)
  \/ Quiet /\ \E a \in CloseAllIds : CloseAllTimerFires(a)
  \/ Quiet /\ \E cl \in closers : DestroyCompletes(cl)
  \/ Quiet /\ ClockTick

SpecPerm == InitPerm /\ [][NextPerm]_vars

SpecCB == InitIdle /\ [][NextCB]_vars

SpecMon == InitIdle /\ [][NextMon]_vars

\* the interval callback runs as long as an interval is set, and time passes
SpecMonFair == SpecMon /\ WF_vars(MonitorSweep) /\ WF_vars(ClockTick)

SpecExec == InitIdle /\ [][NextExec]_vars

SpecPool == InitIdle /\ [][NextPool]_vars

SpecQuery == InitIdle /\ [][NextQuery]_vars

SpecTm == InitIdle /\ [][NextTm]_vars

SpecCreate == InitIdle /\ [][NextCreate]_vars

\* the steps of the code itself and its timers are taken; whether the backend
\* answers a statement is left open
SpecCreateFair ==
  /\ SpecCreate
  /\ WF_vars(\E c \in CallIds : AcquireTimesOut(c))
  /\ WF_vars(\E c \in CallIds : RefuseCleans(c))
  /\ WF_vars(\E c \in CallIds : CatchCleans(c))
  /\ WF_vars(\E cl \in closers : ClosePoolFinish(cl))

SpecSess == InitSess /\ [][NextSess]_vars

\* one raw call on a transport that can be stale on every attempt
NextRetry ==
  \/ \E r \in RetryIds : RawStart(r)
  \/ \E r \in RetryIds : ValidationSucceeds(r)
  \/ \E r \in RetryIds : ValidationFails(r)
  \/ \E r \in RetryIds : InvalidClosed(r)
  \/ \E r \in RetryIds : OpenSessionResolves(r)
  \/ \E r \in RetryIds : StatementSucceeds(r)
  \/ \E r \in RetryIds : StatementStale(r)
  \/ \E r \in RetryIds : ClientClosed(r)
  \/ \E r \in RetryIds : ConnectResolves(r)
  \/ \E r \in RetryIds : ReopenResolvesAgain(r)
  \/ \E r \in RetryIds, e \in SessErrors : StatementFails(r, e)
  \/ \E r \in RetryIds, e \in SessErrors : ConnectRejects(r, e)
  \/ \E r \in RetryIds, e \in SessErrors : ReopenRejects(r, e)

SpecRetry == InitSess /\ [][NextRetry]_vars

\* raw calls on the warehouse adapter while its monitor ticks and the pool is closed
NextStats ==
  \/ \E r \in StatsRawIds : RawStart(r)
  \/ \E r \in StatsRawIds : ValidationSucceeds(r)
  \/ \E r \in StatsRawIds : OpenSessionResolves(r)
  \/ \E r \in StatsRawIds : StatementSucceeds(r)
  \/ MonitorTick(WarehouseKey)
  \/ ClosePoolStart(WarehouseKey)
  \/ \E cl \in closers : ClosePoolFinish(cl)
  \/ ClockTick

SpecStats == InitStats /\ [][NextStats]_vars

SpecProc == InitIdle /\ [][NextProc]_vars

\* the sanitized list, read while the configuration and one pool change
NextList ==
  \/ \E cfgs \in DbConfigLists : SetDbConfigs(cfgs)
  \/ GetDatabaseList
  \/ \E pn \in ConfigProfiles : CreatePoolStart(1, "db1", pn)
  \/ ProbeSucceeds(1)
  \/ VerifierRefuses(1)
  \/ RefuseCleans(1)

SpecList == InitIdle /\ [][NextList]_vars

\* one run of the warehouse verifier against a server that answers or fails
NextDbx ==
  \/ DbxStart
  \/ DbxUserResolves
  \/ \E catalog \in CatalogNames : DbxCatalogResolves(catalog)
  \/ DbxContextRejects
  \/ \E rows \in GrantResults : DbxCatalogGrantsResolve(rows)
  \/ \E schema \in SchemaNames : DbxSchemaResolves(schema)
  \/ \E rows \in GrantResults : DbxSchemaGrantsResolve(rows)
  \/ DbxSchemaGrantsReject
  \/ DbxEnumerationRejects
  \/ DbxCreateResolves
  \/ \E msg \in CreateErrors : DbxCreateRejects(msg)
  \/ \E ok \in BOOLEAN : DbxDropSettles(ok)
  \/ ClockTick

SpecDbx == InitIdle /\ [][NextDbx]_vars

SpecCloseAll == InitCloseAll /\ [][NextCloseAll]_vars

\* timers fire and time passes; whether a destroy() settles is left open
SpecCloseAllFair ==
  /\ SpecCloseAll
  /\ WF_vars(ClockTick)
  /\ WF_vars(\E a \in CloseAllIds : CloseAllTimerFires(a))
  /\ WF_vars(\E a \in CloseAllIds : CloseAllResolves(a))

(***************************************************************************)
(* Claims about the write-permission verifier (checked under SpecPerm)     *)
(***************************************************************************)
\* the uppercased grants of the current user contain the word
GrantsContain(word) == Includes(ToUpperCase(JoinRows(srvGrants)), word)

\* C3: for every combination of the three server flags and of the grants,
\* isStrictlyReadOnlySession returns true if innodb_read_only is ON; otherwise,
\* on a node with read_only or super_read_only ON, true iff the grants contain
\* neither SUPER nor ALL PRIVILEGES; otherwise true iff the grants contain none
\* of INSERT, UPDATE, DELETE, CREATE, DROP, ALTER, ALL PRIVILEGES and no EXECUTE.
C3_TruthTable ==
  vPc = "returned" =>
    vResult =
      IF srvInnodb = "ON" THEN TRUE
      ELSE IF srvReadOnly = "ON" \/ srvSuperRO = "ON"
      THEN ~GrantsContain(KwSuper) /\ ~GrantsContain(KwAllPrivileges)
      ELSE /\ ~GrantsContain(KwInsert) /\ ~GrantsContain(KwUpdate)
           /\ ~GrantsContain(KwDelete) /\ ~GrantsContain(KwCreate)
           /\ ~GrantsContain(KwDrop) /\ ~GrantsContain(KwAlter)
           /\ ~GrantsContain(KwAllPrivileges)
           /\ ~GrantsContain(KwExecute)

\* C3 witness: the verifier has returned false on a writable node for a user
\* whose only privilege besides SELECT is EXECUTE
C3_Witness ==
  /\ vPc = "returned"
  /\ srvInnodb = "OFF" /\ srvReadOnly = "OFF" /\ srvSuperRO = "OFF"
  /\ srvGrants = <<RowSelect, RowExecute>>
  /\ vResult = FALSE

\* C32: once the verifier has read innodb_read_only = ON it has returned
\* true: it is not waiting for the grants of the current user and it has not
\* failed on them.
C32_ReadOnlyEngineSkipsGrants ==
  vLocals.innodbReadOnly = "ON" => (vPc = "returned" /\ vResult = TRUE)

\* C40: what isStrictlyReadOnlySession has returned is the isStrictlyReadOnly
\* that checkPermissions computes from the same server flags and grants.
C40_DiagnosticAgreesWithGate ==
  vPc = "returned" =>
    vResult = checkPermissions(srvReadOnly, srvSuperRO, srvGrants).isStrictlyReadOnly

(***************************************************************************)
(* Claims about the circuit breaker (checked under SpecCB)                 *)
(***************************************************************************)
\* C6: a CLOSED breaker stops allowing calls after exactly failureThreshold
\* recordFailure calls that no recordSuccess interrupts, and not earlier: the
\* failure counter of a CLOSED breaker equals the number of failures since the
\* last success and stays below failureThreshold, a recordSuccess in CLOSED
\* sets it to 0, and the failure that completes the streak opens the breaker.
C6_OpensAfterExactlyThreshold ==
  /\ [](\A k \in DOMAIN dbBreakers :
          dbBreakers[k].state = "CLOSED" =>
            /\ dbBreakers[k].failureCount = failStreak[k]
            /\ failStreak[k] < failureThreshold)
  /\ [][\A k \in Keys :
          /\ (/\ cbLast'.op = "recordFailure" /\ cbLast'.key = k
              /\ StateOf(dbBreakers, k) \in {"CLOSED", "NONE"})
             => IF failStreak[k] + 1 = failureThreshold
                THEN /\ StateOf(dbBreakers', k) = "OPEN"
                     /\ ~isAllowed(dbBreakers', k, now').result
                ELSE /\ StateOf(dbBreakers', k) = "CLOSED"
                     /\ isAllowed(dbBreakers', k, now').result
          /\ (/\ cbLast'.op = "recordSuccess" /\ cbLast'.key = k
              /\ StateOf(dbBreakers, k) \in {"CLOSED", "NONE"})
             => /\ StateOf(dbBreakers', k) = "CLOSED"
                /\ dbBreakers'[k].failureCount = 0]_vars

\* C6 witness: the failureThreshold-th failure in a row has just opened a breaker
C6_Witness ==
  \E k \in DOMAIN dbBreakers :
    /\ cbLast.op = "recordFailure" /\ cbLast.key = k
    /\ dbBreakers[k].state = "OPEN"
    /\ dbBreakers[k].failureCount = failureThreshold
    /\ dbBreakers[k].lastStateChange = now

\* C7: while a breaker is OPEN, isAllowed returns false before resetTimeout has
\* elapsed since the breaker became OPEN, and the first isAllowed at or after
\* that returns true and leaves it HALF_OPEN; a recordFailure or recordSuccess
\* while OPEN moves neither the state nor the entry time.
C7_OpenBlocksUntilResetTimeout ==
  /\ [](\A k \in DOMAIN dbBreakers :
          dbBreakers[k].state = "OPEN" => dbBreakers[k].lastStateChange = enteredOpen[k])
  /\ [][\A k \in Keys :
          /\ (/\ cbLast'.op = "isAllowed" /\ cbLast'.key = k
              /\ StateOf(dbBreakers, k) = "OPEN")
             => IF now - enteredOpen[k] >= resetTimeout
                THEN cbLast'.result = TRUE /\ StateOf(dbBreakers', k) = "HALF_OPEN"
                ELSE cbLast'.result = FALSE /\ StateOf(dbBreakers', k) = "OPEN"
          /\ (/\ cbLast'.op \in {"recordFailure", "recordSuccess"} /\ cbLast'.key = k
              /\ StateOf(dbBreakers, k) = "OPEN")
             => /\ StateOf(dbBreakers', k) = "OPEN"
                /\ dbBreakers'[k].lastStateChange = dbBreakers[k].lastStateChange]_vars

\* C7 witness: an isAllowed call found the timeout of an OPEN breaker elapsed
\* although a failure had been recorded while it was OPEN
C7_Witness ==
  \E k \in DOMAIN dbBreakers :
    /\ cbLast.op = "isAllowed" /\ cbLast.key = k /\ cbLast.result = TRUE
    /\ dbBreakers[k].state = "HALF_OPEN"
    /\ dbBreakers[k].lastStateChange = now
    /\ now = enteredOpen[k] + resetTimeout
    /\ dbBreakers[k].lastFailureTime > enteredOpen[k]

\* C8: in HALF_OPEN one recordFailure reopens the breaker and restarts the
\* reset timeout; the halfOpenSuccessThreshold-th recordSuccess closes it with
\* both counters at 0, an earlier one leaves it HALF_OPEN.
C8_HalfOpenTransitions ==
  /\ [](\A k \in DOMAIN dbBreakers :
          dbBreakers[k].state = "HALF_OPEN" =>
            /\ dbBreakers[k].successCount = halfOpenSucc[k]
            /\ halfOpenSucc[k] < halfOpenSuccessThreshold)
  /\ [][\A k \in Keys :
          /\ (/\ cbLast'.op = "recordFailure" /\ cbLast'.key = k
              /\ StateOf(dbBreakers, k) = "HALF_OPEN")
             => /\ StateOf(dbBreakers', k) = "OPEN"
                /\ dbBreakers'[k].lastStateChange = now
                /\ ~isAllowed(dbBreakers', k, now').result
          /\ (/\ cbLast'.op = "recordSuccess" /\ cbLast'.key = k
              /\ StateOf(dbBreakers, k) = "HALF_OPEN")
             => IF halfOpenSucc[k] + 1 = halfOpenSuccessThreshold
                THEN /\ StateOf(dbBreakers', k) = "CLOSED"
                     /\ dbBreakers'[k].failureCount = 0
                     /\ dbBreakers'[k].successCount = 0
                ELSE /\ StateOf(dbBreakers', k) = "HALF_OPEN"
                     /\ halfOpenSucc[k] + 1 < halfOpenSuccessThreshold]_vars

\* C8 witness: the last of halfOpenSuccessThreshold successes has just closed a
\* breaker that had been OPEN
C8_Witness ==
  \E k \in DOMAIN dbBreakers :
    /\ cbLast.op = "recordSuccess" /\ cbLast.key = k
    /\ dbBreakers[k].state = "CLOSED"
    /\ dbBreakers[k].lastStateChange = now
    /\ enteredOpen[k] # NoTime
    /\ dbBreakers[k].failureCount = 0 /\ dbBreakers[k].successCount = 0

SameEntry(bs1, bs2, k) ==
  /\ (k \in DOMAIN bs1) = (k \in DOMAIN bs2)
  /\ k \in DOMAIN bs1 /\ k \in DOMAIN bs2 => bs1[k] = bs2[k]

\* C10: a call for one key leaves the breaker of every other key as it was
\* (state, counters, timestamps, existence); a monitor sweep changes a breaker
\* only if that breaker itself is OPEN with its own timeout elapsed.
C10_BreakersIndependent ==
  [][/\ \A a \in Keys : \A b \in Keys \ {a} :
          cbLast'.key = a => SameEntry(dbBreakers, dbBreakers', b)
     /\ cbLast'.op = "sweep" =>
          /\ DOMAIN dbBreakers' = DOMAIN dbBreakers
          /\ \A b \in DOMAIN dbBreakers :
               dbBreakers'[b] # dbBreakers[b] =>
                 /\ dbBreakers[b].state = "OPEN"
                 /\ now - dbBreakers[b].lastStateChange >= resetTimeout]_vars

\* C10 witness: a reset of one key has just run while the breaker of another key
\* is OPEN with failures counted
C10_Witness ==
  \E a \in DOMAIN dbBreakers : \E b \in DOMAIN dbBreakers \ {a} :
    /\ cbLast.op = "reset" /\ cbLast.key = a
    /\ dbBreakers[a].state = "CLOSED"
    /\ enteredOpen[a] # NoTime
    /\ dbBreakers[b].state = "OPEN"
    /\ dbBreakers[b].failureCount = failureThreshold

\* C38: right after reset(key) the breaker of key is CLOSED with failureCount 0
\* and successCount 0, whatever its state and counters were before the call
C38_ResetClearsCounters ==
  cbLast.op = "reset" =>
    /\ cbLast.key \in DOMAIN dbBreakers
    /\ dbBreakers[cbLast.key].state = "CLOSED"
    /\ dbBreakers[cbLast.key].failureCount = 0
    /\ dbBreakers[cbLast.key].successCount = 0

\* C39: in every reachable state of every breaker, failureCount is below
\* failureThreshold while the state is CLOSED, successCount is below
\* halfOpenSuccessThreshold in every state, and successCount is 0 while the
\* state is OPEN or CLOSED
C39_CountersWithinThresholds ==
  \A k \in DOMAIN dbBreakers :
    /\ dbBreakers[k].state = "CLOSED" => dbBreakers[k].failureCount < failureThreshold
    /\ dbBreakers[k].successCount < halfOpenSuccessThreshold
    /\ dbBreakers[k].state \in {"OPEN", "CLOSED"} => dbBreakers[k].successCount = 0
    /\ dbBreakers[k].failureCount >= 0 /\ dbBreakers[k].successCount >= 0

\* C39 witness: one breaker is HALF_OPEN one success short of closing, after a
\* failure was recorded on it while it was OPEN, and the other is CLOSED one
\* failure short of opening
C39_Witness ==
  \E a \in DOMAIN dbBreakers : \E b \in DOMAIN dbBreakers :
    /\ dbBreakers[a].state = "HALF_OPEN"
    /\ dbBreakers[a].successCount = halfOpenSuccessThreshold - 1
    /\ dbBreakers[a].lastFailureTime > enteredOpen[a]
    /\ dbBreakers[b].state = "CLOSED"
    /\ dbBreakers[b].failureCount = failureThreshold - 1

(***************************************************************************)
(* Claims on closeAll (checked under SpecCloseAllFair)                     *)
(***************************************************************************)
\* closeAll call a waits for the destroy() of a pool that never settles
HasHung(a) == \E cl \in closeAllOps[a].promises : cl.inst \in hung

\* C20: a closeAll(timeout) call that runs the shutdown while the destroy() of
\* one pool never completes does not hang: it is rejected, with 'Pool close
\* timeout' only once timeout has elapsed, and never resolves; when it starts
\* waiting destroy() has been invoked on every pool of the registry; and no
\* pool whose destroy() completed is left in the registry.
C20_CloseAllRejectsAtTimeout ==
  /\ \A a \in CloseAllIds :
       (closeAllOps[a].pc = "racing" /\ HasHung(a)) ~> closeAllOps[a].pc = "rejected"
  /\ \A a \in CloseAllIds :
       closeAllOps[a].pc = "racing" ~> closeAllOps[a].pc \in {"resolved", "rejected"}
  /\ [](\A p \in destroyed : \A k \in DOMAIN pools : pools[k] # p)
  /\ [][\A a \in CloseAllIds :
          /\ (closeAllOps[a].pc = "idle" /\ closeAllOps'[a].pc = "racing") =>
               /\ \A k \in DOMAIN pools : pools[k] \in destroyInvoked'
               /\ {cl.key : cl \in closeAllOps'[a].promises} = DOMAIN pools
          /\ (closeAllOps[a].pc = "racing" /\ closeAllOps'[a].pc = "rejected"
                /\ closeAllOps'[a].error = PoolCloseTimeout) =>
               /\ now - closeAllOps[a].started >= closeAllOps[a].timeout
               /\ \A cl \in closeAllOps[a].promises : cl.inst \in destroyInvoked
          /\ (closeAllOps[a].pc = "racing" /\ HasHung(a)) =>
               closeAllOps'[a].pc # "resolved"]_vars

\* two pools, the destroy() of one completed and that of the other hangs:
\* closeAll was rejected by its timer and the first pool is evicted
C20_Witness ==
  \E a \in CloseAllIds :
    /\ closeAllOps[a].pc = "rejected"
    /\ closeAllOps[a].error = PoolCloseTimeout
    /\ Cardinality(closeAllOps[a].promises) = 2
    /\ \E cl \in closeAllOps[a].promises : cl.inst \in hung /\ cl \in closers
    /\ \E cl \in closeAllOps[a].promises : cl.inst \in destroyed /\ cl.key \notin DOMAIN pools

(***************************************************************************)
(* Claims on the bounds of createPool (checked under SpecCreateFair)       *)
(***************************************************************************)
\* C15: every createPool call that has started settles, also when the backend
\* leaves the probe or a statement of the verifier without answer.
C15_CreatePoolSettles ==
  \A c \in CallIds :
    (calls[c].pc # "idle") ~> (calls[c].pc \in {"resolved", "rejected"})
(***************************************************************************)
(* Claims about the warehouse verifier.                                    *)
(***************************************************************************)
\* the entries of rawLog for one statement kind
LogOf(sql) == {i \in 1..Len(rawLog) : rawLog[i].sql = sql}

\* C26: when the verifier has returned and a grant it enumerated on the
\* catalog or on the schema carries a write action, it has returned false;
\* when no enumerated grant carries a write action and the grants were
\* parsed, it has returned true.
C26_WriteGrantMeansNotReadOnly ==
  dbxCheck.pc = "returned" =>
    /\ (\E i \in 1..Len(dbxCheck.allGrants) : IsWriteAction(GrantAction(dbxCheck.allGrants[i])))
         => dbxCheck.result = "false"
    /\ (/\ LogOf(SqlCreateView) = {}
        /\ \A i \in 1..Len(dbxCheck.allGrants) : ~IsWriteAction(GrantAction(dbxCheck.allGrants[i])))
         => dbxCheck.result = "true"

\* C27: once SHOW GRANTS ON CATALOG (or the schema lookup that follows it) has
\* rejected, the verifier is in the probe: it returns only after the CREATE
\* of the temporary view has settled, false exactly when that CREATE
\* resolved, and then only after a DROP of the same view has settled,
\* whatever the DROP answered.
C27_ProbeBranch ==
  LET failed == \E i \in LogOf(SqlCatalogGrants) \cup LogOf(SqlSchema) : ~rawLog[i].ok
  IN failed =>
       /\ dbxCheck.pc \in {SqlCreateView, SqlDropView, "returned"}
       /\ dbxCheck.pc = "returned" =>
            /\ LogOf(SqlCreateView) # {}
            /\ dbxCheck.result = "false" <=> (\E i \in LogOf(SqlCreateView) : rawLog[i].ok)
            /\ dbxCheck.result \in {"true", "false"}
            /\ dbxCheck.result = "false" =>
                 \E i \in LogOf(SqlCreateView), j \in LogOf(SqlDropView) :
                   i < j /\ rawLog[j].arg = rawLog[i].arg

\* the probe created its view, the DROP failed, and the verifier returned
C27_Witness ==
  /\ dbxCheck.pc = "returned"
  /\ \E i \in LogOf(SqlCatalogGrants) : ~rawLog[i].ok
  /\ \E i \in LogOf(SqlCreateView) : rawLog[i].ok
  /\ \E j \in LogOf(SqlDropView) : ~rawLog[j].ok /\ rawLog[j].arg > 0

\* the probe could not create its view for a reason other than permissions
C27_WitnessOtherError ==
  /\ dbxCheck.pc = "returned"
  /\ \E i \in LogOf(SqlSchema) : ~rawLog[i].ok
  /\ \E i \in LogOf(SqlCreateView) : ~rawLog[i].ok
  /\ dbxCheck.result = "true"


(***************************************************************************)
(* Claims about executeWithCircuitBreaker (checked under SpecExec)         *)
(***************************************************************************)
\* C9: executeWithCircuitBreaker rejects with the breaker error without
\* invoking the operation exactly when the breaker of the key is OPEN with its
\* reset timeout not yet elapsed; otherwise it invokes the operation exactly
\* once, calls recordSuccess exactly once if the operation resolves and
\* recordFailure exactly once if it rejects, and settles with the operation's
\* own value or error.
C9_WrapperRecordsOnce ==
  /\ [](\A o \in OpIds :
          /\ execOps[o].pc = "running" =>
               execOps[o].invoked = 1 /\ execOps[o].successes = 0 /\ execOps[o].failures = 0
          /\ execOps[o].pc = "resolved" =>
               /\ execOps[o].invoked = 1 /\ execOps[o].successes = 1 /\ execOps[o].failures = 0
               /\ execOps[o].outcome \in OpValues /\ execOps[o].settled = execOps[o].outcome
          /\ (execOps[o].pc = "rejected" /\ execOps[o].settled = BreakerOpenError) =>
               execOps[o].invoked = 0 /\ execOps[o].successes = 0 /\ execOps[o].failures = 0
          /\ (execOps[o].pc = "rejected" /\ execOps[o].settled # BreakerOpenError) =>
               /\ execOps[o].invoked = 1 /\ execOps[o].successes = 0 /\ execOps[o].failures = 1
               /\ execOps[o].outcome \in OpErrors /\ execOps[o].settled = execOps[o].outcome)
  /\ [][\A o \in OpIds :
          /\ (execOps[o].pc = "idle" /\ execOps'[o].pc # "idle") =>
               LET k == execOps'[o].key
                   blocked == /\ StateOf(dbBreakers, k) = "OPEN"
                              /\ now - enteredOpen[k] < resetTimeout
               IN IF blocked
                  THEN execOps'[o].pc = "rejected" /\ execOps'[o].settled = BreakerOpenError
                  ELSE execOps'[o].pc = "running"
          /\ (execOps[o].pc = "running" /\ execOps'[o].pc = "resolved") =>
               dbBreakers' = recordSuccess(dbBreakers, execOps[o].key, now)
          /\ (execOps[o].pc = "running" /\ execOps'[o].pc = "rejected") =>
               dbBreakers' = recordFailure(dbBreakers, execOps[o].key, now)]_vars

\* C9 witness: an invocation was rejected by the breaker, without running its
\* operation, after failing operations had opened the breaker of its key
C9_Witness ==
  \E o \in OpIds :
    /\ execOps[o].pc = "rejected"
    /\ execOps[o].settled = BreakerOpenError
    /\ execOps[o].invoked = 0
    /\ dbBreakers[execOps[o].key].state = "OPEN"
    /\ dbBreakers[execOps[o].key].failureCount = failureThreshold
(***************************************************************************)
(* Claims about getDatabaseList.                                           *)
(***************************************************************************)
\* two configuration lists that differ at most in passwords and tokens
SameButSecrets(a, b) ==
  /\ Len(a) = Len(b)
  /\ \A i \in 1..Len(a) :
       /\ a[i].dbKey = b[i].dbKey
       /\ a[i].config.client = b[i].config.client
       /\ a[i].config.description = b[i].config.description
       /\ DOMAIN a[i].config.connection = DOMAIN b[i].config.connection
       /\ \A f \in DOMAIN a[i].config.connection \ {"password", "token"} :
            a[i].config.connection[f] = b[i].config.connection[f]

ListedFields == {"dbKey", "description", "type", "host", "port", "user", "poolStatus"}

\* C25: getDatabaseList() returns, for every configured key in order, an entry
\* with exactly the fields dbKey, description, type, host, port, user and
\* poolStatus, and the list returned is the one any configuration differing
\* only in passwords or tokens would have produced.
C25_ListIsCredentialRedacted ==
  listCall.done =>
    /\ Len(listCall.returned) = Len(listCall.configs)
    /\ \A i \in 1..Len(listCall.returned) :
         /\ DOMAIN listCall.returned[i] = ListedFields
         /\ listCall.returned[i].dbKey = listCall.configs[i].dbKey
    /\ \A other \in DbConfigLists :
         SameButSecrets(other, listCall.configs)
           => getDatabaseList(other, listCall.stats) = listCall.returned

\* a list of a traditional and a warehouse configuration, one of them with live statistics
C25_Witness ==
  /\ listCall.done
  /\ Len(listCall.configs) = 2
  /\ {listCall.configs[1].config.client, listCall.configs[2].config.client} = {"mysql2", "databricks"}
  /\ "db1" \in DOMAIN listCall.stats
  /\ \E other \in DbConfigLists : other # listCall.configs /\ SameButSecrets(other, listCall.configs)


(***************************************************************************)
(* Claims on the breaker's monitor (checked under SpecMonFair)             *)
(***************************************************************************)
OpenAndElapsed(k) ==
  /\ k \in DOMAIN dbBreakers
  /\ dbBreakers[k].state = "OPEN"
  /\ now - dbBreakers[k].lastStateChange >= resetTimeout

\* C11: with monitoring started, a breaker that is OPEN with resetTimeout
\* elapsed becomes HALF_OPEN (unless monitoring is stopped or the breaker
\* destroyed first), every sweep moves every such breaker to HALF_OPEN, and
\* once stopMonitoring() or destroy() has returned no interval is left and no
\* sweep runs until startMonitoring() is called again.
C11_MonitorHealsAndStops ==
  /\ \A k \in Keys :
       (OpenAndElapsed(k) /\ monitoringTimer)
         ~> (StateOf(dbBreakers, k) = "HALF_OPEN" \/ ~monitoringTimer)
  /\ [][/\ cbLast'.op = "sweep" =>
             /\ monitoringTimer
             /\ \A k \in Keys :
                  OpenAndElapsed(k) => StateOf(dbBreakers', k) = "HALF_OPEN"
        /\ cbLast'.op \in {"stopMonitoring", "destroy"} =>
             ~monitoringTimer' /\ sweepTimers' = 0
        /\ (~monitoringTimer /\ cbLast'.op # "startMonitoring") =>
             sweepTimers' = 0]_vars

\* a sweep has just moved an untouched OPEN breaker to HALF_OPEN, after the
\* monitor had been stopped and started again
C11_Witness ==
  /\ cbLast.op = "sweep"
  /\ monitoringTimer
  /\ \E k \in Keys :
       /\ StateOf(dbBreakers, k) = "HALF_OPEN"
       /\ dbBreakers[k].lastStateChange = now
       /\ enteredOpen[k] # NoTime
       /\ now - enteredOpen[k] >= resetTimeout

(***************************************************************************)
(* Claims about the connection manager (checked under SpecPool)            *)
(***************************************************************************)
\* a monitor interval of key k is set and not cleared
MonitorLive(k, timers) == \E t \in timers : calls[t].key = k

\* C1: in every reachable state, also while a createPool call is at its
\* connectivity probe or in its permission verification, getConnection(key)
\* returns a pool only if the permission verifier has already returned true
\* for that pool.
C1_OnlyVerifiedPoolsReachable ==
  \A k \in PoolKeys : getConnectionReturns(k) => getPool(k) \in verified

\* C2: when a createPool call rejects after a failed probe or permission check,
\* the pool it built has been destroyed, getPool(key) is null, getAllPoolStats
\* has no entry for the key and no monitor timer exists for the key.
C2_FailedCreateLeavesNothing ==
  [][\A c \in CallIds :
       (calls[c].pc = "cleanup" /\ calls'[c].pc = "rejected") =>
         /\ c \in destroyInvoked'
         /\ calls[c].key \notin DOMAIN pools'
         /\ calls[c].key \notin DOMAIN poolStats'
         /\ calls[c].key \notin DOMAIN monitoringIntervals'
         /\ ~MonitorLive(calls[c].key, liveTimers')]_vars

\* the profile of call c belongs to a traditional RDBMS
Traditional(c) ==
  /\ calls[c].profile \in ProfileNames
  /\ Profiles[calls[c].profile].client # "databricks"

\* the configured user of call c holds one of the seven privileges
HoldsWriteOrExecute(c) ==
  \E kw \in {KwInsert, KwUpdate, KwDelete, KwCreate, KwDrop, KwAlter, KwExecute} :
    Includes(ToUpperCase(JoinRows(Profiles[calls[c].profile].grants)), kw)

\* the node of call c has none of the three read-only flags on
WritableNode(c) ==
  /\ Profiles[calls[c].profile].innodbReadOnly = "OFF"
  /\ Profiles[calls[c].profile].readOnly = "OFF"
  /\ Profiles[calls[c].profile].superReadOnly = "OFF"

C5_AcceptsIffVerifierTrue ==
  [][\A c \in CallIds :
       Traditional(c) =>
         /\ (calls[c].pc = "verify" /\ calls'[c].pc = "resolved") =>
              /\ VerifierVerdict(Profiles[calls[c].profile])
              /\ calls[c].profile # "readOnlySuper"
              /\ c \notin apiClosed =>
                   calls[c].key \in DOMAIN pools' /\ pools'[calls[c].key] = c
         /\ (calls[c].pc = "verify" /\ calls'[c].pc = "refuse") =>
              /\ ~VerifierVerdict(Profiles[calls[c].profile])
              /\ calls[c].profile # "readOnlySelect"
         /\ (calls[c].pc = "refuse" /\ calls'[c].pc # "refuse") =>
              calls'[c].error = WritePermissionError
         /\ (calls[c].pc = "cleanup" /\ calls[c].error = WritePermissionError
               /\ calls'[c].pc # "cleanup") =>
              calls'[c].pc = "rejected" /\ calls'[c].error = WritePermissionError]_vars

\* C21: when createPool(key, config) has resolved (no closePool called from
\* outside, no later createPool for the key), getPool(key) returns the pool
\* that call built, getPoolStats(key) is non-null and a monitor interval of
\* the key is running; a pool that was registered for the key when the call
\* was made has had destroy() invoked.
C21_ReconfigureInstallsNewPool ==
  \A c \in CallIds :
    (/\ calls[c].pc = "resolved"
     /\ apiClosed = {}
     /\ \A d \in CallIds : d > c => calls[d].key # calls[c].key)
    => /\ calls[c].key \in DOMAIN pools
       /\ pools[calls[c].key] = c
       /\ calls[c].key \in DOMAIN poolStats
       /\ calls[c].key \in DOMAIN monitoringIntervals
       /\ monitoringIntervals[calls[c].key] \in liveTimers
       /\ \A d \in CallIds :
            (d < c /\ calls[d].key = calls[c].key /\ calls[d].pc = "resolved")
              => d \in destroyInvoked

\* C33: when a closePool(key) call resolves, the key has no monitor timer (none
\* registered, none running), destroy has been invoked on the pool the call
\* closed, and the registry has no pool, statistics or pool configuration for
\* the key.
C33_ClosePoolLeavesNothing ==
  [][\A cl \in closers :
       cl \notin closers' =>
         /\ cl.inst \in destroyInvoked'
         /\ cl.key \notin DOMAIN pools'
         /\ cl.key \notin DOMAIN poolStats'
         /\ cl.key \notin DOMAIN poolConfigs'
         /\ cl.key \notin DOMAIN monitoringIntervals'
         /\ ~MonitorLive(cl.key, liveTimers')]_vars

\* C34: a monitor tick leaves in the PoolStats entry of the warehouse key the
\* sizes of the adapter's active set, available set and pending queue at that
\* tick, and changes nothing else in the registry.
C34_TickStoresLiveUtilization ==
  [][\A k \in DOMAIN poolStats \cap DOMAIN poolStats' :
       poolStats'[k] # poolStats[k] =>
         /\ poolStats'[k].activeConnections = Cardinality(activeSessions)
         /\ poolStats'[k].idleConnections = Len(arrays[availableSessions])
         /\ poolStats'[k].pendingAcquisitions = Len(pendingRequests)
         /\ UNCHANGED <<pools, poolConfigs, monitoringIntervals, liveTimers>>]_vars

(***************************************************************************)
(* Claims on the process (checked under SpecProc)                          *)
(***************************************************************************)
\* a signal or an uncaught exception has arrived
Triggered ==
  \E h \in TaskIds : tasks[h].kind \in {"shutdownHandler", "gracefulShutdown", "uncaughtException"}

\* C22: when a createPool call of initConnections rejects for one key, the
\* process is not terminated by it (it runs on unless a signal or an uncaught
\* exception arrives) and createPool is still called for the keys after it.
C22_InitFailureIsLocal ==
  /\ (\E c \in CallIds : calls[c].pc = "rejected") /\ ~Triggered => Running
  /\ \A c \in CallIds :
       (calls[c].pc = "rejected" /\ ~Running /\ ~Triggered) =>
         \A d \in CallIds : d > c => calls[d].pc # "idle"

\* C24: the process has not exited unless a closeAll call has settled (all
\* pools destroyed, or its timeout expired) and none is still waiting.
C24_ExitOnlyAfterCloseAll ==
  ~Running =>
    /\ \E a \in CloseAllIds : closeAllOps[a].pc \in {"resolved", "rejected"}
    /\ \A a \in CloseAllIds : closeAllOps[a].pc # "racing"

(***************************************************************************)
(* Claims on the query surface (checked under SpecQuery)                   *)
(***************************************************************************)
BreakerBlocks(k) ==
  /\ k \in DOMAIN dbBreakers
  /\ dbBreakers[k].state = "OPEN"
  /\ now - dbBreakers[k].lastStateChange < resetTimeout

\* C12: a statement of executeQuery reaches the backend only if the breaker of
\* its key does not block, and when the backend has answered, recordSuccess or
\* recordFailure of that key is the breaker call made for the answer.
C12_QueriesGoThroughBreaker ==
  [][\A q \in QueryIds :
       /\ (queryOps[q].pc = "idle" /\ queryOps'[q].pc = "race") =>
            ~BreakerBlocks(queryOps'[q].key)
       /\ (queryOps[q].pc = "race" /\ queryOps'[q].pc = "returned"
             /\ queryOps'[q].error # QueryTimeoutError) =>
            /\ cbLast'.key = queryOps[q].key
            /\ cbLast'.op = IF queryOps'[q].success THEN "recordSuccess"
                            ELSE "recordFailure"]_vars

Available == Range(arrays[availableSessions])

\* raw call r has been given a session by this step
Acquires(r) ==
  /\ rawOps'[r].pc = "executing"
  /\ rawOps'[r].attempts = rawOps[r].attempts + 1

\* C16: a session of the sessions list is in exactly one of the available set
\* and the active set, no session is in both, and a session that
\* acquireSession returns is not in the available set at that moment.
C16_SessionInExactlyOneSet ==
  /\ [](\A s \in 1..MaxOpened :
          /\ ~(s \in Available /\ s \in activeSessions)
          /\ s \in Range(sessions) => (s \in Available \/ s \in activeSessions))
  /\ [][\A r \in RawIds :
          Acquires(r) =>
            rawOps'[r].session \notin Range(arrays'[availableSessions'])]_vars

C18_OneReconnectPerStaleError ==
  /\ [](\A r \in RawIds :
          /\ rawOps[r].reconnects = rawOps[r].stale
          /\ rawOps[r].pc \in {"executing", "resolved"} =>
               /\ rawOps[r].retryCount = rawOps[r].stale
               /\ rawOps[r].attempts <= rawOps[r].stale + 1
          /\ rawOps[r].pc = "resolved" => rawOps[r].result = "rows")
  /\ [][\A r \in RawIds :
          /\ (rawOps[r].pc \in {"executing", "opening"}
                /\ rawOps'[r].stale = rawOps[r].stale + 1) =>
               rawOps'[r].pc = "closingClient"
          /\ (rawOps[r].pc = "closingClient" /\ rawOps'[r].pc # "closingClient") =>
               /\ rawOps'[r].pc = "connecting"
               /\ sessions' = << >>
               /\ activeSessions' = {}
               /\ arrays'[availableSessions'] = << >>
               /\ dbsqlClient'.id # dbsqlClient.id
          /\ (rawOps[r].pc = "reopening" /\ rawOps'[r].pc \notin {"reopening", "rejected"}) =>
               /\ rawOps'[r].retryCount = rawOps[r].retryCount + 1
               /\ Len(sessions') = Len(sessions) + 1]_vars

\* a statement failed stale once, the adapter reconnected, the retry succeeded
C18_Witness ==
  \E r \in RawIds :
    /\ rawOps[r].pc = "resolved"
    /\ rawOps[r].stale = 1
    /\ rawOps[r].reconnects = 1
    /\ rawOps[r].attempts = 2
    /\ rawOps[r].result = "rows"

\* C19: when a statement fails with an error that is not a stale-session
\* error, raw rejects with that error at once: no reconnection, no further
\* attempt.
C19_OtherErrorsPropagate ==
  [][\A r \in RawIds :
       /\ (rawOps[r].pc = "executing" /\ rawOps'[r].pc # "executing"
             /\ rawOps'[r].pc # "resolved" /\ rawOps'[r].stale = rawOps[r].stale) =>
            /\ rawOps'[r].pc = "rejected"
            /\ rawOps'[r].error \in SessErrors \ {StaleError}
            /\ rawOps'[r].reconnects = rawOps[r].reconnects
            /\ rawOps'[r].attempts = rawOps[r].attempts
       /\ rawOps[r].pc = "rejected" => rawOps'[r] = rawOps[r]]_vars

\* a statement has failed with HTTP 400 that is no THTTPException: rejected
C19_Witness ==
  \E r \in RawIds :
    /\ rawOps[r].pc = "rejected"
    /\ rawOps[r].error = SyntaxError
    /\ rawOps[r].attempts = 1
    /\ rawOps[r].reconnects = 0

\* C28: the sessions list of the adapter never holds more than poolSize.max
\* sessions.
C28_SessionsWithinMax == Len(sessions) <= poolSize.max

\* C29: a raw call is given a session only at the end of its own validation
\* loop (a session that loop has just probed) or by the openSession it asked
\* for; in particular a queued call is not given a session that has not been
\* probed since it was last used.
C29_HandedOnlyAfterProbe ==
  [][\A r \in RawIds :
       Acquires(r) => rawOps[r].pc \in {"validating", "closingInvalid", "opening"}]_vars

\* C30: a raw call executes its statement at most MAX_CONNECTION_RETRIES
\* times, and once it has met that many stale-session errors it has rejected
\* with the stale-session error.
C30_AtMostThreeExecutions ==
  \A r \in RetryIds :
    /\ rawOps[r].attempts <= MAX_CONNECTION_RETRIES
    /\ rawOps[r].stale >= MAX_CONNECTION_RETRIES =>
         (rawOps[r].pc = "rejected" /\ rawOps[r].error = StaleError)

\* a queued call with no session in use and no other call in flight: nothing
\* will ever call releaseSession for it
NoStrandedWaiter ==
  ~(/\ \E r \in RawIds : rawOps[r].pc = "queued"
    /\ \A q \in RawIds : rawOps[q].pc \in {"queued", "resolved", "rejected"}
    /\ activeSessions = {})

\* raw call r is not running: not called yet, or settled
Settled_(r) == rawOps[r].pc \in {"idle", "resolved", "rejected"}

\* C31: when the statement of a raw call settles, in that same step the
\* session it held leaves the active set and joins the available set, or goes
\* to the oldest queued request; and when no raw call is running the active
\* set is empty.
C31_SessionGivenBack ==
  /\ []((\A r \in RawIds : Settled_(r)) => activeSessions = {})
  /\ [][\A r \in RawIds :
          (rawOps[r].pc = "executing" /\ rawOps'[r].pc # "executing") =>
            LET s == rawOps[r].session
            IN IF pendingRequests # << >>
               THEN /\ rawOps'[Head(pendingRequests)].session = s
                    /\ pendingRequests' = Tail(pendingRequests)
                    /\ arrays'[availableSessions'] = arrays[availableSessions]
               ELSE /\ s \notin activeSessions'
                    /\ arrays'[availableSessions'] = Append(arrays[availableSessions], s)]_vars

\* all raw calls have settled: one after a stale error and a retry, one with a query error
C31_Witness ==
  /\ \A r \in RawIds : rawOps[r].pc \in {"resolved", "rejected"}
  /\ \E r \in RawIds : rawOps[r].pc = "resolved" /\ rawOps[r].stale = 1
  /\ \E r \in RawIds : rawOps[r].pc = "rejected" /\ rawOps[r].error = ServerError

\* C35: no two raw calls hold the same session at the same time
C35_SessionHeldByOneCaller ==
  \A r \in RawIds : \A q \in RawIds \ {r} :
    (rawOps[r].pc = "executing" /\ rawOps[q].pc = "executing") =>
      rawOps[r].session # rawOps[q].session

\* C36: while a request is queued it is in the queue of resolvers and some
\* raw call is under way or some session is in use, so that a releaseSession
\* that settles it is still to come
C36_QueuedRequestHasAServer ==
  \A r \in RawIds :
    rawOps[r].pc = "queued" =>
      /\ r \in Range(pendingRequests)
      /\ \/ activeSessions # {}
         \/ \E q \in RawIds : rawOps[q].pc \notin {"idle", "queued", "resolved", "rejected"}

\* C37: the available set and the active set hold only sessions of the
\* sessions list, and once destroy() has finished the sessions list, the
\* available set and the active set are empty
C37_TrackedSessionsAreListed ==
  /\ (Available \cup activeSessions) \subseteq Range(sessions)
  /\ destroyPc = "done" =>
       (sessions = << >> /\ Available = {} /\ activeSessions = {})

(***************************************************************************)
(* Claims on the Timeout Governor (checked under SpecTm)                   *)
(***************************************************************************)
TimeoutErrorOf(kind) ==
  IF kind = "connectionAcquisition" THEN ConnectionTimeoutError
  ELSE DatabaseTimeoutError

\* C13: withTimeout settles once, with the first of the two events: when the
\* operation settles while the timer is pending, the timer is cleared and the
\* value or error of the operation is passed on; when the timer fires first
\* (not before the budget has elapsed), it rejects with the typed timeout error
\* carrying the budget; once settled, nothing changes the outcome.
C13_SettlesOnceWithFirstEvent ==
  [][\A i \in TmIds :
       /\ (tmOps[i].operation = "running" /\ tmOps'[i].operation = "resolved"
             /\ tmOps[i].timer = "set") =>
            /\ tmOps'[i].pc = "resolved"
            /\ tmOps'[i].value = tmOps'[i].outcome
            /\ tmOps'[i].timer = "cleared"
       /\ (tmOps[i].operation = "running" /\ tmOps'[i].operation = "rejected"
             /\ tmOps[i].timer = "set") =>
            /\ tmOps'[i].pc = "rejected"
            /\ tmOps'[i].error = tmOps'[i].outcome
            /\ tmOps'[i].timer = "cleared"
       /\ (tmOps[i].timer = "set" /\ tmOps'[i].timer = "fired") =>
            /\ tmOps[i].operation = "running"
            /\ now - tmOps[i].started >= tmOps[i].budget
            /\ tmOps'[i].pc = "rejected"
            /\ tmOps'[i].error = TimeoutErrorOf(tmOps[i].kind)
            /\ tmOps'[i].errorTimeout = tmOps[i].budget
       /\ (tmOps[i].pc = "pending" /\ tmOps'[i].pc # "pending") =>
            \/ tmOps'[i].operation # tmOps[i].operation
            \/ tmOps'[i].timer = "fired"
       /\ tmOps[i].pc \in {"resolved", "rejected"} =>
            /\ tmOps'[i].pc = tmOps[i].pc
            /\ tmOps'[i].value = tmOps[i].value
            /\ tmOps'[i].error = tmOps[i].error
            /\ tmOps'[i].errorTimeout = tmOps[i].errorTimeout]_vars

\* the timer has won and the operation has resolved afterwards
C13_Witness ==
  \E i \in TmIds :
    /\ tmOps[i].pc = "rejected"
    /\ tmOps[i].error = DatabaseTimeoutError
    /\ tmOps[i].errorTimeout = 30000
    /\ tmOps[i].timer = "fired"
    /\ tmOps[i].operation = "resolved"

\* C14: getTimeout(kind) returns the duration the last setTimeout(kind, d)
\* stored, a withTimeout call of that kind without customTimeout takes that
\* duration as its budget, and the budget of a call does not change afterwards.
C14_SetTimeoutTakesEffect ==
  /\ [](\A kind \in TimeoutTypes : getTimeout(timeouts, kind) = timeouts[kind])
  /\ [][\A i \in TmIds :
          /\ tmOps[i].pc # "idle" => tmOps'[i].budget = tmOps[i].budget
          /\ (tmOps[i].pc = "idle" /\ tmOps'[i].pc = "pending") =>
               \/ tmOps'[i].budget = timeouts[tmOps'[i].kind]
               \/ tmOps'[i].budget = 15000]_vars
====
